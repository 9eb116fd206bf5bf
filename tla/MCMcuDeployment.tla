-------------------------- MODULE MCMcuDeployment --------------------------
(***************************************************************************)
(* Instances of McuDeployment for TLC.                                     *)
(***************************************************************************)
EXTENDS McuDeployment

CONSTANTS d1, d2, n1, n2, i1, i2, k1, k2

\* Every deployment selects every node.
AllNodes == [d \in Deployment |-> Node]

\* Bound of an instance with two nodes: no device is behind the second one.
SecondNodeIsSilent == n2 \in Node => dev'[n2] = Factory /\ ~node'[n2].seen

\* What the overlap of two controllers may leave to one of them: a late patch of
\* the other took the deployment back to Preparing, while the device has its
\* image in the slot or was told to boot it.
TakesOver ==
    LET object == InPhase([NewDep EXCEPT !.digest = i1], "Preparing", n1)
        heard  == [NewNode EXCEPT !.seen = TRUE, !.fresh = TRUE, !.state = "running",
                                  !.validated = TRUE]
    IN  /\ dep = [d \in Deployment |-> object]
        /\ cache = [c \in Controller |-> dep]
        /\ image = [d \in Deployment |-> i1]
        /\ expired = {}
        /\ node = [n \in Node |-> IF n = n1 THEN heard ELSE DeletedNode]
        /\ \E a \in {Written(Factory, d1, i1), Activated(Written(Factory, d1, i1))} :
              dev = [n \in Node |-> IF n = n1 THEN a ELSE Factory]
        /\ queue = [c \in Controller |-> Deployment]
        /\ rec = [c \in Controller |-> Idle]

\* One controller, from the start or after an overlap.
TakeoverSpec == (Init \/ TakesOver) /\ [][Next]_vars /\ ControllerFairness
=============================================================================
