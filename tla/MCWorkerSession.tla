-------------------------- MODULE MCWorkerSession ---------------------------
(***************************************************************************)
(* Small instances of WorkerSession: the demo Table that the page seeds    *)
(* and one of the user's own, and the clicks that can disturb each other.  *)
(***************************************************************************)
EXTENDS WorkerSession

CONSTANTS demo, own

On(name, kinds) == {[kind |-> kind, name |-> name] : kind \in kinds}

MCClicks == On(demo, {"create", "delete", "query", "stream", "reset"})
                \cup On(own, {"create"})

MCRefusable == {"insert"}

MCMaxClicks == [waits \in BOOLEAN |-> IF waits THEN 2 ELSE 1]
=============================================================================
