------------------------------ MODULE Reviews ------------------------------
(***************************************************************************)
(* review-service (app/services/review_service.py): reviews, the votes on   *)
(* them, and their moderation.                                              *)
(*                                                                          *)
(* A vote keeps two counters of the review in step with the rows of          *)
(* helpful_votes: the trigger of the table counts an INSERT first, and the    *)
(* UPDATE of the same flush then writes the counter that Python computed.    *)
(* Authors, moderators and voters work on one row at the same time.          *)
(***************************************************************************)
EXTENDS DbSessions, Integers, FiniteSets

CONSTANTS
    Reviews,    \* the (user, product) pairs: uq_user_product_review names the row
    Voters,     \* users who vote
    Flags,      \* whether texts have a word of PROFANITY_WORDS: values of flagged
    VoteBound   \* bound: votes are cast while the counters stay up to this

ASSUME ReviewAssumption ==
    Flags \subseteq BOOLEAN /\ VoteBound \in Nat /\ IsFiniteSet(Voters)

VARIABLES
    review,         \* review.reviews
    vote,           \* review.helpful_votes
    reviewReq,      \* the state of each session
    reviewRaced     \* history: reviews saved though a row had changed since it was read

reviewVars == <<review, vote, reviewReq, reviewRaced>>

Moderation == {"APPROVED", "PENDING", "HIDDEN", "REJECTED"}

\* flagged: a word of the title or the content was redacted.
Review == [flagged: Flags, deleted: BOOLEAN, hidden: BOOLEAN, status: Moderation,
           helpful: Int, notHelpful: Int]
Vote == {"helpful", "notHelpful"}

\* The row that is not there is no row.
ASSUME NoReviewAssumption == None \notin Review \cup Vote

CreateReq == [pc: {"create"}, k: Reviews, flagged: Flags]
VoteReq == [pc: {"vote"}, k: Reviews, read: Review, voter: Voters, choice: Vote]
SaveReviewReq == [pc: {"save"}, k: Reviews, read: Review, obj: Review]
CastReq == [pc: {"cast"}, k: Reviews, read: Review, obj: Review, voter: Voters, choice: Vote,
            before: Vote \cup {None}]

ReviewTypeOK ==
    /\ review \in [Reviews -> Review \cup {None}]
    /\ vote \in [Reviews \X Voters -> Vote \cup {None}]
    /\ reviewReq \in [Sessions -> {Idle} \cup CreateReq \cup SaveReviewReq
                                  \cup VoteReq \cup CastReq]
    /\ reviewRaced \subseteq Reviews

ReviewInit ==
    /\ review = [k \in Reviews |-> None]
    /\ vote = [kv \in Reviews \X Voters |-> None]
    /\ reviewReq = [s \in Sessions |-> Idle]
    /\ reviewRaced = {}

-----------------------------------------------------------------------------

\* create_review, the SELECT: it does not see a deleted review of the same user.
ReadForCreate(s, k, flagged) ==
    /\ reviewReq[s] = Idle
    /\ review[k] # None => review[k].deleted
    /\ reviewReq' = [reviewReq EXCEPT ![s] = [pc |-> "create", k |-> k, flagged |-> flagged]]
    /\ UNCHANGED <<review, vote, reviewRaced>>

\* The INSERT; UNIQUE refuses it when there is a row, a deleted one included.
InsertReview(s) ==
    LET q == reviewReq[s]
    IN  /\ q.pc = "create"
        /\ \/ /\ review[q.k] = None
              /\ review' = [review EXCEPT ![q.k] =
                              [flagged |-> q.flagged, deleted |-> FALSE, hidden |-> FALSE,
                               status |-> IF q.flagged THEN "PENDING" ELSE "APPROVED",
                               helpful |-> 0, notHelpful |-> 0]]
           \/ review[q.k] # None /\ UNCHANGED review
        /\ reviewReq' = [reviewReq EXCEPT ![s] = Idle]
        /\ UNCHANGED <<vote, reviewRaced>>

\* A handler has loaded a review and made obj of it.
LoadReview(s, k, obj) ==
    /\ reviewReq[s] = Idle
    /\ reviewReq' = [reviewReq EXCEPT ![s] = [pc |-> "save", k |-> k, read |-> review[k],
                                              obj |-> obj]]
    /\ UNCHANGED <<review, vote, reviewRaced>>

\* update_review within the edit window: the new text is redacted like the first,
\* and moderation_status stays what it was.
UpdateReview(s, k, flagged) ==
    /\ review[k] # None /\ ~review[k].deleted
    /\ LoadReview(s, k, [review[k] EXCEPT !.flagged = flagged])

\* delete_review; a second time too.
DeleteReview(s, k) ==
    /\ review[k] # None
    /\ LoadReview(s, k, [review[k] EXCEPT !.deleted = TRUE])

\* Mutant: approving forgets to show the review again.
BugModerateReview(s, k, action) ==
    /\ review[k] # None
    /\ LoadReview(s, k, CASE action = "hide" -> [review[k] EXCEPT !.hidden = TRUE,
                                                                  !.status = "HIDDEN"]
                          [] action = "approve" -> [review[k] EXCEPT !.status = "APPROVED"]
                          [] action = "reject" -> [review[k] EXCEPT !.hidden = TRUE,
                                                                    !.status = "REJECTED"])

\* moderate_review, for deleted reviews too.
ModerateReview(s, k, action) ==
    /\ review[k] # None
    /\ LoadReview(s, k, CASE action = "hide" -> [review[k] EXCEPT !.hidden = TRUE,
                                                                  !.status = "HIDDEN"]
                          [] action = "approve" -> [review[k] EXCEPT !.hidden = FALSE,
                                                                     !.status = "APPROVED"]
                          [] action = "reject" -> [review[k] EXCEPT !.hidden = TRUE,
                                                                    !.status = "REJECTED"])

\* Mutant: UPDATE writes every column back.
BugSaveReview(s) ==
    LET q == reviewReq[s]
    IN  /\ q.pc = "save"
        /\ review' = [review EXCEPT ![q.k] = q.obj]
        /\ reviewRaced' = IF Changed(review[q.k], q.read) THEN reviewRaced \cup {q.k}
                                                          ELSE reviewRaced
        /\ reviewReq' = [reviewReq EXCEPT ![s] = Idle]
        /\ UNCHANGED vote

SaveReview(s) ==
    LET q == reviewReq[s]
    IN  /\ q.pc = "save"
        /\ review' = [review EXCEPT ![q.k] = Flush(@, q.read, q.obj)]
        /\ reviewRaced' = IF Changed(review[q.k], q.read) THEN reviewRaced \cup {q.k}
                                                          ELSE reviewRaced
        /\ reviewReq' = [reviewReq EXCEPT ![s] = Idle]
        /\ UNCHANGED vote

-----------------------------------------------------------------------------
(* vote_helpful *)

\* The first SELECT, of the review.
ReadReview(s, k, voter, choice) ==
    /\ reviewReq[s] = Idle
    /\ review[k] # None /\ ~review[k].deleted /\ review[k][choice] < VoteBound
    /\ reviewReq' = [reviewReq EXCEPT ![s] = [pc |-> "vote", k |-> k, read |-> review[k],
                                              voter |-> voter, choice |-> choice]]
    /\ UNCHANGED <<review, vote, reviewRaced>>

\* Mutant: no max(0, ...).
BugTally(row, before, choice) ==
    LET left == IF before = None THEN row ELSE [row EXCEPT ![before] = @ - 1]
    IN  [left EXCEPT ![choice] = @ + 1]

\* Mutant: a vote that changes sides stays on the first one too.
BugTallyBoth(row, before, choice) == [row EXCEPT ![choice] = @ + 1]

\* The counters when a voter who voted before (or not) makes a choice.
Tally(row, before, choice) ==
    LET left == IF before = None THEN row
                ELSE [row EXCEPT ![before] = IF @ - 1 > 0 THEN @ - 1 ELSE 0]
    IN  [left EXCEPT ![choice] = @ + 1]

\* The second SELECT, of the voter's vote; the same choice again changes nothing.
ReadVote(s) ==
    LET q == reviewReq[s]
        before == vote[q.k, q.voter]
    IN  /\ q.pc = "vote"
        /\ reviewReq' = [reviewReq EXCEPT ![s] =
             IF before = q.choice THEN Idle
             ELSE [pc |-> "cast", k |-> q.k, read |-> q.read, voter |-> q.voter,
                   obj |-> Tally(q.read, before, q.choice), choice |-> q.choice,
                   before |-> before]]
        /\ UNCHANGED <<review, vote, reviewRaced>>

\* Vote and counters in one transaction; UNIQUE(review_id, user_id) refuses both when
\* the voter has voted meanwhile.
CastVote(s) ==
    LET q == reviewReq[s]
        now == vote[q.k, q.voter]
    IN  /\ q.pc = "cast"
        /\ \/ /\ q.before = None => now = None
              /\ vote' = [vote EXCEPT ![<<q.k, q.voter>>] = q.choice]
              /\ review' = [review EXCEPT ![q.k] = Flush(@, q.read, q.obj)]
              /\ reviewRaced' = IF Changed(review[q.k], q.read) \/ now # q.before
                                THEN reviewRaced \cup {q.k} ELSE reviewRaced
           \/ /\ q.before = None /\ now # None
              /\ UNCHANGED <<review, vote, reviewRaced>>
        /\ reviewReq' = [reviewReq EXCEPT ![s] = Idle]

ReviewNext ==
    \E s \in Sessions :
      \/ \E k \in Reviews :
           \/ \E flagged \in Flags : ReadForCreate(s, k, flagged) \/ UpdateReview(s, k, flagged)
           \/ DeleteReview(s, k)
           \/ \E action \in {"hide", "approve", "reject"} : ModerateReview(s, k, action)
           \/ \E voter \in Voters, choice \in Vote : ReadReview(s, k, voter, choice)
      \/ InsertReview(s) \/ SaveReview(s) \/ ReadVote(s) \/ CastVote(s)

ReviewSpec == ReviewInit /\ [][ReviewNext]_reviewVars

-----------------------------------------------------------------------------
(* Properties *)

VotesFor(k, choice) == Cardinality({v \in Voters : vote[k, v] = choice})

\* Lost updates may make the counters wrong, never negative.
CountsNotNegative ==
    \A k \in Reviews : review[k] # None => review[k].helpful >= 0 /\ review[k].notHelpful >= 0

\* The counters of a review are the votes on record, unless two requests saved it
\* at once: each voter counts once, on the side of the last choice.
CountsMatchVotes ==
    \A k \in Reviews \ reviewRaced : review[k] # None =>
        \A choice \in Vote : review[k][choice] = VotesFor(k, choice)

\* A deleted review does not come back, whatever its author, the voters and the
\* moderators were doing with it when it was deleted.
DeletedStaysDeleted ==
    [][\A k \in Reviews : review[k] # None /\ review[k].deleted
         => review'[k].deleted]_reviewVars

\* What the moderators decided and what is shown agree, unless two of them decided
\* at once.
HiddenMatchesStatus ==
    \A k \in Reviews \ reviewRaced : review[k] # None =>
        (review[k].hidden <=> review[k].status \in {"HIDDEN", "REJECTED"})

\* Votes are counted and decisions stand, with authors, voters and moderators at work
\* on one review.
ReviewSafety ==
    /\ [](ReviewTypeOK /\ CountsNotNegative /\ CountsMatchVotes /\ HiddenMatchesStatus)
    /\ DeletedStaysDeleted

-----------------------------------------------------------------------------
(* Promises that the code does not keep: see README.md.                        *)

\* A review whose text was redacted is not on show before a moderator approved it:
\* an edit does not set moderation_status back.
FlaggedIsHeld ==
    [][\A k \in Reviews : review[k] # None /\ review'[k].flagged /\ ~review[k].flagged
         => review'[k].status # "APPROVED"]_reviewVars
=============================================================================
