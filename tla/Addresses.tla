----------------------------- MODULE Addresses -----------------------------
(***************************************************************************)
(* address-service (app/main.py): the addresses of a user, one of which is  *)
(* the primary one.                                                         *)
(*                                                                          *)
(* Nothing in the schema makes the primary address unique or limits the      *)
(* number of addresses: a request counts or unsets the rows it sees and      *)
(* commits its own afterwards. Deleting the primary address commits twice.   *)
(***************************************************************************)
EXTENDS DbSessions, Naturals, FiniteSets

CONSTANTS
    AddressIds,             \* address ids (uuid4)
    Owners,                 \* users
    MaxAddressesPerUser     \* MAX_ADDRESSES_PER_USER

ASSUME AddressAssumption == MaxAddressesPerUser \in Nat \ {0} /\ IsFiniteSet(Sessions)

VARIABLES
    address,        \* address.addresses
    addressReq,     \* the state of each session
    chosen,         \* history: users who chose a primary address; not after unsetting it,
                    \* or deleting their last address
    overlapped      \* history: users two of whose requests overlapped, or were cut off

addressVars == <<address, addressReq, chosen, overlapped>>

Address == [owner: Owners, primary: BOOLEAN]

\* The row that is not there is no row.
ASSUME NoAddressAssumption == None \notin Address

\* unset: the primary addresses the request saw, and takes the mark from.
InsertReq == [pc: {"insert"}, u: Owners, primary: BOOLEAN, unset: SUBSET AddressIds]
MarkReq == [pc: {"mark"}, u: Owners, a: AddressIds, primary: BOOLEAN, was: BOOLEAN,
            unset: SUBSET AddressIds]
DeleteReq == [pc: {"promote", "latest"}, u: Owners, a: AddressIds, was: BOOLEAN]
UnsetReq == [pc: {"counted"}, u: Owners, primary: BOOLEAN]
LoadedReq == [pc: {"loaded"}, u: Owners, a: AddressIds, was: BOOLEAN]

AddressTypeOK ==
    /\ address \in [AddressIds -> Address \cup {None}]
    /\ addressReq \in [Sessions -> {Idle} \cup UnsetReq \cup InsertReq \cup LoadedReq
                                     \cup MarkReq \cup DeleteReq]
    /\ chosen \subseteq Owners /\ overlapped \subseteq Owners

AddressInit ==
    /\ address = [a \in AddressIds |-> None]
    /\ addressReq = [s \in Sessions |-> Idle]
    /\ chosen = {} /\ overlapped = {}

Of(u) == {a \in AddressIds : address[a] # None /\ address[a].owner = u}
PrimaryOf(u) == {a \in Of(u) : address[a].primary}
InFlight(u) == {s \in Sessions : addressReq[s] # Idle /\ addressReq[s].u = u}

\* The ids a request has seen.
Seen(q) ==
    {a \in AddressIds : \/ q.pc \in {"loaded", "mark", "promote", "latest"} /\ a = q.a
                        \/ q.pc \in {"insert", "mark"} /\ a \in q.unset}

\* uuid4 makes ids that are not in the table and that no request has seen in it before.
Fresh(a) == address[a] = None /\ \A s \in Sessions : a \notin Seen(addressReq[s])

\* A request of u starts.
Begin(s, u, req) ==
    /\ addressReq[s] = Idle
    /\ addressReq' = [addressReq EXCEPT ![s] = req]
    /\ overlapped' = IF InFlight(u) # {} THEN overlapped \cup {u} ELSE overlapped
    /\ UNCHANGED <<address, chosen>>

Proceed(s, req) ==
    /\ addressReq' = [addressReq EXCEPT ![s] = req]
    /\ UNCHANGED <<address, chosen, overlapped>>

-----------------------------------------------------------------------------

\* Mutant: one address more than the limit.
BugCountAddresses(s, u, primary) ==
    /\ Cardinality(Of(u)) <= MaxAddressesPerUser
    /\ Begin(s, u, [pc |-> "counted", u |-> u, primary |-> primary])

\* create_address, the limit check.
CountAddresses(s, u, primary) ==
    /\ ~(Cardinality(Of(u)) >= MaxAddressesPerUser)
    /\ Begin(s, u, [pc |-> "counted", u |-> u, primary |-> primary])

\* Mutant: the first address that claims to be primary wins, the others are not unset.
BugUnsetPrimary(u) == {}

\* _unset_primary: the rows it finds.
UnsetPrimary(u) == PrimaryOf(u)

FindPrimary(s) ==
    LET q == addressReq[s]
    IN  /\ q.pc = "counted"
        /\ Proceed(s, [pc |-> "insert", u |-> q.u, primary |-> q.primary,
                       unset |-> IF q.primary THEN UnsetPrimary(q.u) ELSE {}])

\* The rows in unset, if they are still there, lose the mark. An UPDATE of a row that
\* is gone matches no row, which the session reports by failing (StaleDataError).
Unmarked(unset) ==
    [a \in AddressIds |-> IF a \in unset THEN [address[a] EXCEPT !.primary = FALSE]
                                         ELSE address[a]]

Finish(s, u, marked) ==
    /\ addressReq' = [addressReq EXCEPT ![s] = Idle]
    /\ chosen' = IF marked THEN chosen \cup {u} ELSE chosen
    /\ UNCHANGED overlapped

CommitCreate(s, a) ==
    LET q == addressReq[s]
    IN  /\ q.pc = "insert"
        /\ \/ /\ q.unset \subseteq Of(q.u) /\ Fresh(a)
              /\ address' = [Unmarked(q.unset) EXCEPT ![a] = [owner |-> q.u, primary |-> q.primary]]
              /\ Finish(s, q.u, q.primary)
           \/ ~(q.unset \subseteq Of(q.u)) /\ Proceed(s, Idle)

\* update_address, set_primary and delete_address load the address by id and user.
LoadAddress(s, u, a) ==
    /\ a \in Of(u)
    /\ Begin(s, u, [pc |-> "loaded", u |-> u, a |-> a, was |-> address[a].primary])

\* set_primary, and update_address with is_primary true: the others are found and unset.
FindOthers(s) ==
    LET q == addressReq[s]
    IN  /\ q.pc = "loaded"
        /\ Proceed(s, [pc |-> "mark", u |-> q.u, a |-> q.a, primary |-> TRUE, was |-> q.was,
                       unset |-> UnsetPrimary(q.u) \ {q.a}])

\* update_address with is_primary false: the user may be left without a primary one.
Unmark(s) ==
    LET q == addressReq[s]
    IN  /\ q.pc = "loaded"
        /\ Proceed(s, [pc |-> "mark", u |-> q.u, a |-> q.a, primary |-> FALSE, was |-> q.was,
                       unset |-> {}])

\* The mark is written if it was not read so. When address a is gone, the request fails
\* if it has something to write to it: for update_address, always the version.
CommitMark(s) ==
    LET q == addressReq[s]
    IN  /\ q.pc = "mark"
        /\ \/ /\ q.unset \subseteq Of(q.u)
              /\ q.a \in Of(q.u) \/ q.primary = q.was
              /\ address' = IF q.primary = q.was THEN Unmarked(q.unset)
                            ELSE [Unmarked(q.unset) EXCEPT ![q.a].primary = q.primary]
              /\ addressReq' = [addressReq EXCEPT ![s] = Idle]
              /\ chosen' = IF q.primary THEN chosen \cup {q.u}
                           ELSE IF q.was THEN chosen \ {q.u} ELSE chosen
              /\ UNCHANGED overlapped
           \/ ~(q.unset \cup {q.a} \subseteq Of(q.u)) /\ Proceed(s, Idle)

\* delete_address, the first commit. (The DELETE of a row that is gone is no error.)
CommitDelete(s) ==
    LET q == addressReq[s]
    IN  /\ q.pc = "loaded"
        /\ address' = [address EXCEPT ![q.a] = None]
        /\ addressReq' = [addressReq EXCEPT ![s] =
             IF q.was THEN [pc |-> "promote", u |-> q.u, a |-> q.a, was |-> TRUE] ELSE Idle]
        /\ UNCHANGED <<chosen, overlapped>>

\* The SELECT after it: the address updated last, which can be any.
FindLatest(s) ==
    LET q == addressReq[s]
    IN  /\ q.pc = "promote"
        /\ \/ \E a \in Of(q.u) : Proceed(s, [pc |-> "latest", u |-> q.u, a |-> a,
                                              was |-> address[a].primary])
           \/ /\ Of(q.u) = {}
              /\ chosen' = chosen \ {q.u}
              /\ addressReq' = [addressReq EXCEPT ![s] = Idle]
              /\ UNCHANGED <<address, overlapped>>

\* Mutant: the address that takes over is not saved.
BugPromoteLatest(s) == addressReq[s].pc = "latest" /\ Proceed(s, Idle)

\* The second commit.
PromoteLatest(s) ==
    LET q == addressReq[s]
    IN  /\ q.pc = "latest"
        /\ \/ /\ q.a \in Of(q.u) /\ ~q.was
              /\ address' = [address EXCEPT ![q.a].primary = TRUE]
              /\ addressReq' = [addressReq EXCEPT ![s] = Idle]
              /\ UNCHANGED <<chosen, overlapped>>
           \/ (q.a \notin Of(q.u) \/ q.was) /\ Proceed(s, Idle)

\* The process dies, between the two commits of a deletion too.
DieInRequest(s) ==
    /\ addressReq[s] # Idle
    /\ overlapped' = IF addressReq[s].pc \in {"promote", "latest"}
                     THEN overlapped \cup {addressReq[s].u} ELSE overlapped
    /\ addressReq' = [addressReq EXCEPT ![s] = Idle]
    /\ UNCHANGED <<address, chosen>>

AddressNext ==
    \E s \in Sessions :
      \/ \E u \in Owners :
           \/ \E primary \in BOOLEAN : CountAddresses(s, u, primary)
           \/ \E a \in AddressIds : LoadAddress(s, u, a)
      \/ FindPrimary(s) \/ FindOthers(s) \/ Unmark(s)
      \/ \E a \in AddressIds : CommitCreate(s, a)
      \/ CommitMark(s) \/ CommitDelete(s) \/ FindLatest(s)
      \/ PromoteLatest(s) \/ DieInRequest(s)

AddressSpec == AddressInit /\ [][AddressNext]_addressVars

-----------------------------------------------------------------------------
(* Properties *)

\* Requests that count at the same time go past the limit by no more than their number.
LimitAlmostKept ==
    \A u \in Owners : Cardinality(Of(u)) <= MaxAddressesPerUser + Cardinality(Sessions) - 1

\* A user whose requests do not overlap keeps the limit, and has at most one
\* primary address at every moment.
OnePrimary ==
    \A u \in Owners \ overlapped :
        /\ Cardinality(Of(u)) <= MaxAddressesPerUser
        /\ Cardinality(PrimaryOf(u)) <= 1

\* Such a user, having chosen a primary address, goes without one only between the
\* two commits of a deletion.
PrimaryIsReplaced ==
    \A u \in chosen \ overlapped : Of(u) # {} =>
        \/ PrimaryOf(u) # {}
        \/ \E s \in Sessions : addressReq[s].pc \in {"promote", "latest"} /\ addressReq[s].u = u

\* What the handlers guarantee of limit and primary address without a constraint.
AddressSafety ==
    /\ AddressTypeOK
    /\ LimitAlmostKept
    /\ OnePrimary
    /\ PrimaryIsReplaced

-----------------------------------------------------------------------------
(* Promises that the code does not keep: see README.md.                        *)

\* A user has at most one primary address.
AlwaysOnePrimary == \A u \in Owners : Cardinality(PrimaryOf(u)) <= 1
=============================================================================
