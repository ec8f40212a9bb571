----------------------------- MODULE TaskGroup -----------------------------
(***************************************************************************)
(* What a command of the server promises of the goroutines it starts: the  *)
(* main goroutine starts tasks and returns from its set-up, everybody is   *)
(* told to stop as soon as one of them has ended or the set-up has failed  *)
(* behind a started task, and the command returns when all have ended,     *)
(* with the failures of all.  Lifecycle implements this.                   *)
(***************************************************************************)
CONSTANTS Tasks, Main

Members == Tasks \union {Main}

VARIABLES
    member,    \* member[m]: "idle", "running" or "ended"
    told,      \* has the common context been cancelled?
    failed,    \* the members that ended with an error
    finished,  \* has the command returned?
    outcome    \* the members whose errors it returned

vars == <<member, told, failed, finished, outcome>>

TypeOK ==
    /\ member \in [Members -> {"idle", "running", "ended"}]
    /\ told \in BOOLEAN
    /\ failed \subseteq Members
    /\ finished \in BOOLEAN
    /\ outcome \subseteq Members

Running(m) == member[m] = "running"

Init ==
    /\ member = [m \in Members |-> IF m = Main THEN "running" ELSE "idle"]
    /\ told \in BOOLEAN
    /\ failed = {}
    /\ finished = FALSE
    /\ outcome = {}

Start(t) ==
    /\ Running(Main) /\ member[t] = "idle"
    /\ member' = [member EXCEPT ![t] = "running"]
    /\ UNCHANGED <<told, failed, finished, outcome>>

Ends(m, bad) ==
    /\ Running(m)
    /\ member' = [member EXCEPT ![m] = "ended"]
    /\ failed' = IF bad THEN failed \union {m} ELSE failed
    /\ UNCHANGED <<finished, outcome>>

TaskEnds(t, bad) == Ends(t, bad) /\ told' = TRUE

MainEnds(bad) ==
    /\ Ends(Main, bad)
    /\ told' \in BOOLEAN
    /\ told \/ (bad /\ \E t \in Tasks : Running(t)) => told' = TRUE

Tell ==
    /\ told' = TRUE
    /\ UNCHANGED <<member, failed, finished, outcome>>

Finish ==
    /\ ~ finished
    /\ \A m \in Members : ~ Running(m)
    /\ told' = TRUE
    /\ finished' = TRUE
    /\ outcome' = failed
    /\ UNCHANGED <<member, failed>>

Next ==
    \/ \E t \in Tasks : Start(t) \/ \E bad \in BOOLEAN : TaskEnds(t, bad)
    \/ \E bad \in BOOLEAN : MainEnds(bad)
    \/ Tell
    \/ Finish

Spec == Init /\ [][Next]_vars

-----------------------------------------------------------------------------
(* Nobody works on behind the command's back: when it returns every member *)
(* has ended, or was never started.                                        *)
NoneLeft == finished => \A m \in Members : ~ Running(m)

(* The command returns the error of every member that had one.             *)
AllReported == finished => outcome = failed

(* A task that ended has told the others.                                  *)
EndIsTold == \A t \in Tasks : member[t] = "ended" => told

GroupInv == TypeOK /\ NoneLeft /\ AllReported /\ EndIsTold
=============================================================================
