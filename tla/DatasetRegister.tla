--------------------------- MODULE DatasetRegister --------------------------
(***************************************************************************)
(* What the explorer server promises its clients: one dataset at a time,   *)
(* replaced as a whole, and every answer comes from the dataset that is    *)
(* current at the moment of the answer.                                    *)
(***************************************************************************)
CONSTANTS
    Requests,  \* HTTP requests; a dataset is named after the one that made it
    None,      \* no dataset has been ingested
    NoReply,
    Failed     \* an error reply

VARIABLES
    dataset,  \* the current dataset
    reply     \* reply[r]: the dataset request r was answered from

vars == <<dataset, reply>>

Init ==
    /\ dataset = None
    /\ reply = [r \in Requests |-> NoReply]

Replace(r) ==
    /\ reply[r] = NoReply
    /\ dataset' = r
    /\ reply' = [reply EXCEPT ![r] = r]

Answer(r) ==
    /\ reply[r] = NoReply
    /\ dataset # None
    /\ reply' = [reply EXCEPT ![r] = dataset]
    /\ UNCHANGED dataset

Refuse(r) ==
    /\ reply[r] = NoReply
    /\ reply' = [reply EXCEPT ![r] = Failed]
    /\ UNCHANGED dataset

Next == \E r \in Requests : Replace(r) \/ Answer(r) \/ Refuse(r)

Spec == Init /\ [][Next]_vars
=============================================================================
