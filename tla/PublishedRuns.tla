--------------------------- MODULE PublishedRuns ---------------------------
(***************************************************************************)
(* What the event store promises to whoever reads it: a session id is      *)
(* opened once, and from one moment to the next it is published, with all  *)
(* the artifacts of one run and none of another.  A published session      *)
(* never changes; a run that fails leaves its session open for ever.       *)
(***************************************************************************)
CONSTANTS
  InitialBoards,   \* what may be published before
  Runs             \* the [session, artifacts] that runs may publish

VARIABLE board     \* session id -> Open or Published(artifacts)

Open == [published |-> FALSE]
Published(artifacts) == [published |-> TRUE, artifacts |-> artifacts]

Init == board \in InitialBoards

OpenSession(s) ==
  /\ s \notin DOMAIN board
  /\ board' = [t \in DOMAIN board \cup {s} |-> IF t = s THEN Open ELSE board[t]]

Publish(run) ==
  /\ run.session \in DOMAIN board
  /\ board[run.session] = Open
  /\ board' = [board EXCEPT ![run.session] = Published(run.artifacts)]

Next == \E run \in Runs : OpenSession(run.session) \/ Publish(run)

Spec == Init /\ [][Next]_board
=============================================================================
