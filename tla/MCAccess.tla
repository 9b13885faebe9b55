------------------------------ MODULE MCAccess ------------------------------
(***************************************************************************)
(* Who is signed in and who is connected, side by side: the sessions of       *)
(* auth-service and the connections of chat-service. They share nothing, so a *)
(* behaviour is about one of them, which part names.                          *)
(***************************************************************************)
EXTENDS AuthSessions, ChatHub, TLC

VARIABLE part

vars == <<part, authVars, chatVars>>

Init == part \in {"auth", "chat"} /\ AuthInit /\ ChatInit

Next ==
    /\ UNCHANGED part
    /\ IF part = "auth" THEN AuthNext ELSE UNCHANGED authVars
    /\ IF part = "chat" THEN ChatNext ELSE UNCHANGED chatVars

Spec == Init /\ [][Next]_vars

Symmetric ==
    Permutations(Sessions) \cup Permutations(Tokens) \cup Permutations(Passwords)
=============================================================================
