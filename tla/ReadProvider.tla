---------------------------- MODULE ReadProvider ----------------------------
(***************************************************************************)
(* What code that reads contracts expects of its provider: every call is   *)
(* pending until its promise settles, once, with the call's own result at  *)
(* the block it was made for, or with an error.  Promises may settle       *)
(* several at a time.                                                      *)
(***************************************************************************)
CONSTANTS
    Calls,          \* the calls made: each has a promise of its own
    BlockTags,      \* the blocks they are made for
    Answer(_, _),   \* Answer(c, t): what call c returns at block t
    NoAnswer        \* a promise that is not resolved

VARIABLES
    status,         \* of a call's promise
    tagOf,          \* the block the call was made for
    answer          \* what its promise was resolved with

readVars == <<status, tagOf, answer>>

Pending == {c \in Calls : status[c] = "pending"}

Init ==
    /\ status = [c \in Calls |-> "new"]
    /\ tagOf \in [Calls -> BlockTags]
    /\ answer = [c \in Calls |-> NoAnswer]

Request(c) ==
    /\ status[c] = "new"
    /\ status' = [status EXCEPT ![c] = "pending"]
    /\ UNCHANGED <<tagOf, answer>>

Settle(S) ==
    /\ \A c \in Calls \ S : status'[c] = status[c] /\ answer'[c] = answer[c]
    /\ \A c \in S :
          \/ status'[c] = "resolved" /\ answer'[c] = Answer(c, tagOf[c])
          \/ status'[c] = "rejected" /\ answer'[c] = answer[c]
    /\ UNCHANGED tagOf

Next ==
    \/ \E c \in Calls : Request(c)
    \/ \E S \in SUBSET Pending : Settle(S)

Spec == Init /\ [][Next]_readVars
=============================================================================
