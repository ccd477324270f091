---------------------------- MODULE MCNriPlugin ----------------------------
(* Values for the constants of NriPlugin.                                  *)
EXTENDS NriPlugin, TLC

CONSTANT Sure  \* containers whose pods opt in themselves

\* Each pod's opt-in is the namespace's, which may change or be unknown.
AnyAnswer == [c \in Container |->
    [annotation |-> "absent", label |-> "absent",
     namespace |-> Value \cup {"failed"}]]

\* Each pod is opted in by a namespace label that cannot always be read.
FlakyOptIn == [c \in Container |->
    [annotation |-> "absent", label |-> "absent",
     namespace |-> {"true", "failed"}]]

\* Some pods are opted in by their annotation, whatever label and namespace
\* say; the others as in AnyAnswer.
MixedOptIn == [c \in Container |->
    IF c \in Sure
    THEN [annotation |-> "true", label |-> "other",
          namespace |-> {"absent", "failed"}]
    ELSE AnyAnswer[c]]

\* Sound where every container has the same answers and no liveness is checked.
ContainerSymmetry == Permutations(Container)

=============================================================================
