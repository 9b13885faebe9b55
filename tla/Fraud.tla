------------------------------- MODULE Fraud -------------------------------
(***************************************************************************)
(* fraud-service (app/main.py): the score of a transaction, and the block   *)
(* of the IP address it came from.                                          *)
(*                                                                          *)
(* Scores are in hundredths. What the rules look at is kept by others: the   *)
(* counters and marks in Redis and the blocked users are inputs here.       *)
(* Two paths end in an AttributeError: a score below the block threshold     *)
(* (settings.CHALALLENGE_THRESHOLD) and a manual block for some hours.      *)
(***************************************************************************)
EXTENDS DbSessions, Integers, FiniteSetsExt

CONSTANTS
    Ips,            \* IP addresses
    Samples,        \* sets of signals that transactions show, see Signal
    FraudLastHour   \* bound of the clock

VARIABLES
    block,          \* fraud.blocked_ips: blocked_until, by address
    flag,           \* fraud.fraud_flags: the addresses flagged
    fraudReq,       \* the state of each session
    fraudHour       \* the clock

fraudVars == <<block, flag, fraudReq, fraudHour>>

Forever == -1
BlockHours == 1     \* auto-blocks last timedelta(hours=1)
Until == {Forever} \cup 0..(FraudLastHour + BlockHours)

\* What a transaction shows to rules 2 to 7. An ORDER and a REGISTER exclude each other,
\* and of the amounts only the largest threshold reached is given.
Signal == {"BLOCKED_USER", "VELOCITY_FAILED_PAYMENT", "HIGH_ORDER_VELOCITY",
           "OVER_5M", "LARGE_ORDER", "VERY_LARGE_ORDER", "ORDER", "NEW_ACCOUNT", "REGISTER",
           "MANY_REGISTRATIONS"}
AmountSignal == {"OVER_5M", "LARGE_ORDER", "VERY_LARGE_ORDER"}
Transaction == {t \in SUBSET Signal :
                  /\ Cardinality(t \cap AmountSignal) <= 1
                  /\ ~({"ORDER", "REGISTER"} \subseteq t)}

ASSUME FraudAssumption == Samples \subseteq Transaction /\ FraudLastHour \in Nat

\* An address that is not blocked has no end of a block.
ASSUME NoBlockAssumption == None \notin Until

CheckReq == [pc: {"check"}, ip: Ips, t: Samples]
BlockReq == [pc: {"find", "write"}, ip: Ips, read: Until \cup {None}, until: Until,
            flagged: BOOLEAN]
FlagReq == [pc: {"flag"}, ip: Ips]
UnblockReq == [pc: {"unblock"}, ip: Ips]

FraudTypeOK ==
    /\ block \in [Ips -> Until \cup {None}]
    /\ flag \subseteq Ips
    /\ fraudReq \in [Sessions -> {Idle} \cup CheckReq \cup BlockReq \cup FlagReq \cup UnblockReq]
    /\ fraudHour \in 0..FraudLastHour

FraudInit ==
    /\ block = [ip \in Ips |-> None]
    /\ flag = {}
    /\ fraudReq = [s \in Sessions |-> Idle]
    /\ fraudHour = 0

-----------------------------------------------------------------------------
(* The score *)

\* Mutant: a very large amount counts as a large one too.
BugScore(ipBlocked, t) ==
    LET blocked == IF ipBlocked \/ "BLOCKED_USER" \in t THEN 100 ELSE 0
        failed == IF "VELOCITY_FAILED_PAYMENT" \in t THEN 40 ELSE 0
        velocity == IF "HIGH_ORDER_VELOCITY" \in t THEN 30 ELSE 0
        amount == (IF "VERY_LARGE_ORDER" \in t THEN 30 ELSE 0)
                    + (IF {"LARGE_ORDER", "VERY_LARGE_ORDER"} \cap t # {} THEN 15 ELSE 0)
        new == IF "ORDER" \in t /\ t \cap AmountSignal # {} /\ "NEW_ACCOUNT" \in t THEN 30 ELSE 0
        regs == IF {"REGISTER", "MANY_REGISTRATIONS"} \subseteq t THEN 60 ELSE 0
        sum == blocked + failed + velocity + amount + new + regs
    IN  IF sum < 100 THEN sum ELSE 100

\* check_transaction: rules 1 to 7 in turn, and min(score, 1.0).
Score(ipBlocked, t) ==
    LET blocked == IF ipBlocked \/ "BLOCKED_USER" \in t THEN 100 ELSE 0
        failed == IF "VELOCITY_FAILED_PAYMENT" \in t THEN 40 ELSE 0
        velocity == IF "HIGH_ORDER_VELOCITY" \in t THEN 30 ELSE 0
        amount == IF "VERY_LARGE_ORDER" \in t THEN 30
                  ELSE IF "LARGE_ORDER" \in t THEN 15 ELSE 0
        new == IF "ORDER" \in t /\ t \cap AmountSignal # {} /\ "NEW_ACCOUNT" \in t THEN 30 ELSE 0
        regs == IF {"REGISTER", "MANY_REGISTRATIONS"} \subseteq t THEN 60 ELSE 0
        sum == blocked + failed + velocity + amount + new + regs
    IN  IF sum < 100 THEN sum ELSE 100

BlockThreshold == 70

-----------------------------------------------------------------------------
(* POST /internal/fraud/check *)

CheckTransaction(s, ip, t) ==
    /\ fraudReq[s] = Idle
    /\ fraudReq' = [fraudReq EXCEPT ![s] = [pc |-> "check", ip |-> ip, t |-> t]]
    /\ UNCHANGED <<block, flag, fraudHour>>

\* _is_ip_blocked
IsBlocked(ip) == block[ip] # None /\ (block[ip] = Forever \/ block[ip] > fraudHour)

FraudStep(s, req) ==
    /\ fraudReq' = [fraudReq EXCEPT ![s] = req]
    /\ UNCHANGED <<block, flag, fraudHour>>

\* A score at the threshold leads to _block_ip for an hour. Every other one to the
\* error of the misspelt setting: nothing is saved, and the client gets a 500.
Decide(s) ==
    LET q == fraudReq[s]
    IN  /\ q.pc = "check"
        /\ FraudStep(s, IF Score(IsBlocked(q.ip), q.t) >= BlockThreshold
                   THEN [pc |-> "find", ip |-> q.ip, read |-> None, until |-> 0, flagged |-> TRUE]
                   ELSE Idle)

\* POST /admin/fraud/blocks/ip without hours: a block for good.
BlockIp(s, ip) ==
    /\ fraudReq[s] = Idle
    /\ FraudStep(s, [pc |-> "find", ip |-> ip, read |-> None, until |-> Forever, flagged |-> FALSE])

\* Mutant: the duration is forgotten.
BugFindBlock(s) ==
    LET q == fraudReq[s]
    IN  /\ q.pc = "find"
        /\ FraudStep(s, [q EXCEPT !.pc = "write", !.read = block[q.ip],
                                  !.until = IF @ = Forever THEN @ ELSE fraudHour])

\* _block_ip, the SELECT; the end of the block is computed after it.
FindBlock(s) ==
    LET q == fraudReq[s]
    IN  /\ q.pc = "find"
        /\ FraudStep(s, [q EXCEPT !.pc = "write", !.read = block[q.ip],
                                  !.until = IF @ = Forever THEN @ ELSE fraudHour + BlockHours])

\* _block_ip, the commit. It fails when the row has come (UNIQUE) or gone since.
WriteBlock(s) ==
    LET q == fraudReq[s]
    IN  /\ q.pc = "write"
        /\ \/ /\ (q.read = None) = (block[q.ip] = None)
              /\ block' = [block EXCEPT ![q.ip] = IF q.until # q.read THEN q.until ELSE @]
              /\ fraudReq' = [fraudReq EXCEPT ![s] =
                                IF q.flagged THEN [pc |-> "flag", ip |-> q.ip] ELSE Idle]
              /\ UNCHANGED <<flag, fraudHour>>
           \/ (q.read = None) # (block[q.ip] = None) /\ FraudStep(s, Idle)

\* The flag has a transaction of its own.
SaveFlag(s) ==
    /\ fraudReq[s].pc = "flag"
    /\ flag' = flag \cup {fraudReq[s].ip}
    /\ fraudReq' = [fraudReq EXCEPT ![s] = Idle]
    /\ UNCHANGED <<block, fraudHour>>

\* DELETE /admin/fraud/blocks/ip/{ip}
FindForUnblock(s, ip) ==
    /\ fraudReq[s] = Idle /\ block[ip] # None
    /\ FraudStep(s, [pc |-> "unblock", ip |-> ip])

Unblock(s) ==
    /\ fraudReq[s].pc = "unblock"
    /\ block' = [block EXCEPT ![fraudReq[s].ip] = None]
    /\ fraudReq' = [fraudReq EXCEPT ![s] = Idle]
    /\ UNCHANGED <<flag, fraudHour>>

\* No hour passes between the two statements of _block_ip.
FraudHourPasses ==
    /\ fraudHour < FraudLastHour
    /\ \A s \in Sessions : fraudReq[s].pc # "write"
    /\ fraudHour' = fraudHour + 1
    /\ UNCHANGED <<block, flag, fraudReq>>

FraudNext ==
    \/ FraudHourPasses
    \/ \E s \in Sessions :
         \/ \E ip \in Ips :
              \/ BlockIp(s, ip) \/ FindForUnblock(s, ip)
              \/ \E t \in Samples : CheckTransaction(s, ip, t)
         \/ Decide(s) \/ FindBlock(s) \/ WriteBlock(s) \/ SaveFlag(s) \/ Unblock(s)

FraudSpec == FraudInit /\ [][FraudNext]_fraudVars

-----------------------------------------------------------------------------
(* Properties *)

\* Checks and administrators that block an address at the same time never lift its
\* block: it ends by an unblock, or when its time is over.
BlockLasts ==
    [][\A ip \in Ips : IsBlocked(ip) /\ ~IsBlocked(ip)' =>
         \/ fraudHour' # fraudHour
         \/ \E s \in Sessions : fraudReq[s].pc = "unblock" /\ fraudReq[s].ip = ip]_fraudVars

\* Who only buys for much, from an account however new, is never blocked: it takes
\* failed payments, a burst of orders or of registrations, or an entry of a blocklist.
SpendingIsNoCrime ==
    [][\A s \in Sessions : fraudReq[s].pc = "check" /\ fraudReq'[s].pc = "find" =>
         \/ IsBlocked(fraudReq[s].ip)
         \/ ~(fraudReq[s].t \subseteq AmountSignal \cup {"ORDER", "NEW_ACCOUNT"})]_fraudVars

\* Blocks come for a reason and last.
FraudSafety ==
    /\ []FraudTypeOK
    /\ BlockLasts
    /\ SpendingIsNoCrime

-----------------------------------------------------------------------------
(* Promises that the code does not keep: see README.md.                        *)

\* A block for good is not shortened by the checks it refuses.
PermanentStaysPermanent ==
    [][\A ip \in Ips : block[ip] = Forever =>
         \/ block'[ip] = Forever
         \/ \E s \in Sessions : fraudReq[s].pc = "unblock" /\ fraudReq[s].ip = ip]_fraudVars
=============================================================================
