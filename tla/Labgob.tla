------------------------------- MODULE Labgob -------------------------------
(***************************************************************************)
(* labgob under labrpc: what a call leaves in the variable its caller      *)
(* passes for the reply.  gob does not send a field that has its default   *)
(* value, so decoding keeps what such a field held; labgob counts the      *)
(* fields that make this possible.  raft.go passes a new variable in each  *)
(* call, other callers may not.                                            *)
(***************************************************************************)
EXTENDS Labrpc, FiniteSets

CONSTANTS
    Field,    \* the exported fields of a reply, with numbers in them
    Depth     \* how deep they are: the pointer is at 1, the struct at 2, its
              \* own fields at 3

ASSUME ReplyAssumption == IsFiniteSet(Field) /\ Depth \in Nat \ {0, 1, 2}

VARIABLES
    reply,       \* the variable each call is given
    filled,      \* what the handler has put into its own
    errorCount   \* labgob.errorCount

gob == <<reply, filled, errorCount>>

Content == [Field -> {0, 1}]

Fresh == [f \in Field |-> 0]

GobInit ==
    /\ Init
    /\ reply \in [Call -> Content]
    /\ filled = [c \in Call |-> Fresh]
    /\ errorCount = 0

\* The message: the fields that are not zero.
Encode(v) == [f \in {g \in Field : v[g] # 0} |-> v[f]]

\* A field that is in the message is overwritten.
Decode(v, message) ==
    [f \in Field |-> IF f \in DOMAIN message THEN message[f] ELSE v[f]]

\* Mutant: the recursion ends one level too early.
CheckDefaultShallow(v) ==
    IF Depth > 2 THEN 0 ELSE Cardinality({f \in Field : v[f] # 0})

CheckDefault(v) == IF Depth > 3 THEN 0 ELSE Cardinality({f \in Field : v[f] # 0})

\* Service.dispatch makes the reply, the handler fills it.
Fill(c) ==
    /\ Dispatch(c)
    /\ \E v \in Content : filled' = [filled EXCEPT ![c] = v]
    /\ UNCHANGED <<reply, errorCount>>

\* Call decodes the reply, after the look at the variable.
Receive(c) ==
    /\ errorCount' = errorCount + CheckDefault(reply[c])
    /\ reply' = [reply EXCEPT ![c] = Decode(@, Encode(filled[c]))]
    /\ UNCHANGED filled

GobNext ==
    \/ \E c \in Call :
          \/ Fill(c)
          \/ Begin(c) /\ UNCHANGED gob
          \/ Process(c) /\ IF pc[c] = "replying" THEN Receive(c) ELSE UNCHANGED gob
    \/ Test /\ UNCHANGED gob

GobSpec == GobInit /\ [][GobNext]_<<vars, gob>> /\ Fairness

-----------------------------------------------------------------------------
(* Properties. *)

\* A call that returns true leaves exactly the handler's reply in the variable, or
\* labgob has complained ("if the RPC reply contains default values, GOB won't
\* overwrite the non-default value", labgob.go:118-120).  What is deeper than the
\* fields of the reply is not looked at.
MixedReplyIsReported ==
    \A c \in Call : pc[c] = "true" =>
        reply[c] = filled[c] \/ errorCount > 0 \/ Depth > 3
=============================================================================
