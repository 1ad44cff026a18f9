---------------------------- MODULE SearchTasks ----------------------------
(***************************************************************************)
(* The long searches and scans: the commands a user gives, the scheduler's *)
(* own automatic search, the rows of system_activities by which they keep  *)
(* out of each other's way, and the tokens by which a user cancels them.   *)
(* Each runs in a slot; a slot is used again when its search is over, its  *)
(* ended row no more use.  A row left 'running' by a search that is gone is  *)
(* an orphan.  What a search does with an item is SearchGrab's.            *)
(***************************************************************************)
EXTENDS Integers, Sequences, FiniteSets

CONSTANTS
    Commands,  \* slots of the commands and of the scheduled scan
    AutoSearch, \* the slot of the scheduler's auto_search task
    Given,     \* the kinds of command that are given in each of them
    MaxBusy,   \* bound on the searches there are at once
    MaxItems,  \* bound on the items of each slot's search, the folders of a scan
    MaxMishaps, \* bound on the panics and on the statements that fail
    Failing    \* "db": a question, an activity's insert or end, the cleanup at the start

Slots == Commands \cup {AutoSearch}

(* MissingSearch, SeriesMissingSearch, CutoffSearch, SeriesCutoffSearch,    *)
(* EpisodeSearch and MovieSearch ("picked"), DiskScan, and the two tasks.   *)
CommandKinds == {"missing", "seriesMissing", "cutoff", "seriesCutoff", "picked", "scan",
                 "scheduledScan"}

ASSUME ParameterAssumption ==
    /\ AutoSearch \notin Commands /\ Given \in [Commands -> SUBSET CommandKinds]
    /\ MaxItems \in [Slots -> Nat \ {0}] /\ MaxBusy \in Nat /\ MaxMishaps \in Nat

Cancellable == {"auto", "missing", "seriesMissing", "cutoff"}

ActivityType(k) == IF k = "scheduledScan" THEN "scan" ELSE k

(* Mutant: a search for the missing does not ask about those of one series. *)
AsksLess(k) ==
    CASE k \in {"auto", "missing", "seriesMissing"} -> <<"missing", "auto">>
      [] k \in {"cutoff", "scan"}                   -> <<k>>
      [] OTHER                                      -> <<>>

(* The activities each kind asks for before it begins, in order. *)
Asks(k) ==
    CASE k \in {"auto", "missing"}  -> <<"missing", "auto", "seriesMissing">>
      [] k = "seriesMissing"        -> <<"missing", "auto">>
      [] k \in {"cutoff", "scan"}   -> <<k>>
      [] OTHER                      -> <<>>

(* What the comments of the guards say they keep a search from running      *)
(* beside.                                                                  *)
Heeds(k) ==
    CASE k \in {"auto", "missing"}  -> {"missing", "auto", "seriesMissing"}
      [] k = "seriesMissing"        -> {"missing", "auto"}
      [] k \in {"cutoff", "scan"}   -> {k}
      [] OTHER                      -> {}

VARIABLES
    kind,      \* what each slot runs
    stage,     \* where it is
    todo,      \* the activities it has still to ask for
    left,      \* its items still to come
    running,   \* the slots whose activity says 'running'
    old,       \* those whose activity is older than thirty minutes
    tokens,    \* search_cancel_tokens: the slots whose token is in the map
    cancelled, \* the slots whose token is cancelled
    orphans,   \* the running rows nobody works for: [type, old]
    permit,    \* the task's Notify holds a permit
    mishaps,   \* panics and failed statements so far
    asked,     \* history: a trigger was answered and no pass has begun since
    late,      \* history: items begun after the cancel was answered
    before,    \* history: the young rows each slot had to heed when it began to ask
    unanswered \* history: the activities it asked for and got an error

tasksVars == <<kind, stage, todo, left, running, old, tokens, cancelled, orphans, permit, mishaps,
              asked, late, before, unanswered>>

control == <<permit, asked>>
history == <<late, before, unanswered>>

Young      == running \ old
OfType(t)  == {v \in Slots : ActivityType(kind[v]) = t}
Orphan(t)  == {o \in orphans : o.type = t}

Mishap == "db" \in Failing /\ mishaps < MaxMishaps /\ mishaps' = mishaps + 1

TasksInit ==
    /\ kind = [w \in Slots |-> "none"]
    /\ stage = [w \in Slots |-> "idle"]
    /\ todo = [w \in Slots |-> <<>>]
    /\ left = [w \in Slots |-> 0]
    /\ running = {} /\ old = {}
    /\ tokens = {} /\ cancelled = {} /\ orphans = {}
    /\ permit = FALSE /\ asked = FALSE /\ mishaps = 0
    /\ late = [w \in Slots |-> 0]
    /\ before = [w \in Slots |-> {}]
    /\ unanswered = [w \in Slots |-> {}]

-----------------------------------------------------------------------------
(* Beginning *)

(* The slot is free, and nothing of its search is left. *)
Over(w) ==
    /\ kind' = [kind EXCEPT ![w] = "none"]
    /\ stage' = [stage EXCEPT ![w] = "idle"]
    /\ todo' = [todo EXCEPT ![w] = <<>>]
    /\ left' = [left EXCEPT ![w] = 0]
    /\ cancelled' = cancelled \ {w}
    /\ late' = [late EXCEPT ![w] = 0]
    /\ before' = [v \in Slots |-> IF v = w THEN {} ELSE before[v] \ {w}]
    /\ unanswered' = [unanswered EXCEPT ![w] = {}]

(* A slot is taken; the kinds that ask nothing begin at once. *)
Begin(w, k) ==
    /\ stage[w] = "idle"
    /\ Cardinality({v \in Slots : stage[v] # "idle"}) < MaxBusy
    /\ kind' = [kind EXCEPT ![w] = k]
    /\ todo' = [todo EXCEPT ![w] = Asks(k)]
    /\ stage' = [stage EXCEPT ![w] = IF Asks(k) = <<>> THEN "create" ELSE "ask"]
    /\ before' = [before EXCEPT ![w] =
                     {v \in Young : ActivityType(kind[v]) \in Heeds(k)}]
    /\ UNCHANGED <<left, running, old, tokens, cancelled, orphans, mishaps, late, unanswered>>

(* The scheduler has one task for its scans. *)
Command(w) ==
    /\ \E k \in Given[w] :
          /\ k = "scheduledScan" =>
                \A v \in Commands : stage[v] = "idle" \/ kind[v] # "scheduledScan"
          /\ Begin(w, k)
    /\ UNCHANGED control

(* Mutant: a trigger wakes only a task that waits. *)
WakesWaiting == permit' = (permit \/ stage[AutoSearch] = "idle")

(* notify_one: the permit is kept for a task that is busy. *)
Wakes == permit' = TRUE

Trigger ==
    /\ Wakes
    /\ asked' = TRUE
    /\ UNCHANGED <<kind, stage, todo, left, running, old, tokens, cancelled, orphans, mishaps,
                   history>>

(* Of the interval and the permit one is taken, and the other stays.        *)
AutoBegin ==
    /\ Begin(AutoSearch, "auto")
    /\ permit' \in {permit, FALSE}
    /\ asked' = FALSE

(* Mutant: a row blocks however old it is. *)
NoneStale(t) == UNCHANGED <<running, old, orphans>>

(* A row that has run for thirty minutes is taken for dead. *)
FailStale(t) ==
    /\ running' = running \ (OfType(t) \cap old)
    /\ old' = old \ OfType(t)
    /\ orphans' = orphans \ {o \in Orphan(t) : o.old}

(* The search goes on to its next question, or to its row. *)
AsksOn(w) ==
    /\ todo' = [todo EXCEPT ![w] = Tail(@)]
    /\ stage' = [stage EXCEPT ![w] = IF todo'[w] = <<>> THEN "create" ELSE "ask"]
    /\ UNCHANGED <<kind, left, cancelled, late, before>>

(* One question, and the refusal or the next.  The error of the UPDATE is   *)
(* dropped, and only Ok(Some(_)) refuses: a SELECT that fails does not.     *)
Ask(w) ==
    /\ stage[w] = "ask"
    /\ LET t == Head(todo[w]) IN
       \/ /\ \/ FailStale(t) /\ UNCHANGED mishaps
             \/ Mishap /\ UNCHANGED <<running, old, orphans>>
          /\ IF OfType(t) \cap running' # {} \/ \E o \in orphans' : o.type = t
             THEN Over(w)
             ELSE AsksOn(w) /\ UNCHANGED unanswered
       \/ /\ Mishap
          /\ FailStale(t) \/ UNCHANGED <<running, old, orphans>>
          /\ AsksOn(w)
          /\ unanswered' = [unanswered EXCEPT ![w] = @ \cup {t}]
    /\ UNCHANGED <<tokens, control>>

(* A search whose activity cannot be inserted runs without one; a scan      *)
(* without folders, and a scheduled one without its activity, does not run. *)
Create(w) ==
    /\ stage[w] = "create"
    /\ \/ /\ running' = running \cup {w}
          /\ stage' = [stage EXCEPT ![w] = IF kind[w] \in Cancellable THEN "token" ELSE "list"]
          /\ UNCHANGED <<kind, todo, left, cancelled, mishaps, history>>
       \/ /\ Mishap /\ kind[w] # "scheduledScan"
          /\ stage' = [stage EXCEPT ![w] = "list"]
          /\ UNCHANGED <<kind, todo, left, cancelled, running, history>>
       \/ kind[w] \in {"scan", "scheduledScan"} /\ Over(w) /\ UNCHANGED <<running, mishaps>>
    /\ UNCHANGED <<old, tokens, orphans, control>>

-----------------------------------------------------------------------------
(* The items *)

(* What is picked is there, and folders were found before the row.          *)
ReadList(w) ==
    /\ \E n \in 0..MaxItems[w] :
          /\ kind[w] \in {"picked", "scan", "scheduledScan"} => n > 0
          /\ left' = [left EXCEPT ![w] = n]
    /\ stage' = [stage EXCEPT ![w] = "loop"]
    /\ UNCHANGED <<kind, todo, running, old, cancelled, orphans, mishaps, control,
                   history>>

(* The token is inserted, then the list is read: a cancel between the two   *)
(* is one before the first item.                                            *)
Token(w) == stage[w] = "token" /\ ReadList(w) /\ tokens' = tokens \cup {w}

List(w) == stage[w] = "list" /\ ReadList(w) /\ UNCHANGED tokens

(* Mutant: the token is not looked at. *)
GoesOn(w) == left[w] > 0

MayContinue(w) == left[w] > 0 /\ w \notin cancelled

(* Between the look at the token and the search a command writes its        *)
(* progress.                                                                *)
Check(w) ==
    /\ stage[w] = "loop"
    /\ IF MayContinue(w)
       THEN /\ stage' = [stage EXCEPT ![w] = IF w = AutoSearch THEN "search" ELSE "progress"]
            /\ left' = [left EXCEPT ![w] = @ - 1]
       ELSE /\ stage' = [stage EXCEPT ![w] = IF kind[w] = "seriesMissing" THEN "forget" ELSE "complete"]
            /\ UNCHANGED left
    /\ UNCHANGED <<kind, todo, running, old, tokens, cancelled, orphans, mishaps,
                   control, history>>

Progress(w) ==
    /\ stage[w] = "progress"
    /\ stage' = [stage EXCEPT ![w] = "search"]
    /\ late' = [late EXCEPT ![w] = IF w \in cancelled THEN @ + 1 ELSE @]
    /\ UNCHANGED <<kind, todo, left, running, old, tokens, cancelled, orphans,
                   mishaps, control, before, unanswered>>

(* The item is searched, in vain or not, or its ninety seconds are over.    *)
Searched(w) ==
    /\ stage[w] = "search"
    /\ stage' = [stage EXCEPT ![w] = "loop"]
    /\ UNCHANGED <<kind, todo, left, running, old, tokens, cancelled, orphans,
                   mishaps, control, history>>

-----------------------------------------------------------------------------
(* Ending *)

(* Mutant: the row of a search that was cancelled is not ended. *)
EndsUncancelled(w) ==
    /\ running' = running \ ({w} \ cancelled)
    /\ old' = old \ ({w} \ cancelled)

(* The row ends; one that was deleted stays so. *)
EndRow(w) == running' = running \ {w} /\ old' = old \ {w}

(* Running rows left behind by the searches of some slots. *)
Left(W) == {[type |-> ActivityType(kind[w]), old |-> w \in old] : w \in W \cap running}

(* Whoever leaves a row behind. *)
LeavesRow(w) ==
    /\ orphans' = orphans \cup Left({w})
    /\ running' = running \ {w}
    /\ old' = old \ {w}

(* SeriesMissingSearch drops its token first, the others end their row; an  *)
(* error of that is dropped, and the row stays.                             *)
(* (A CutoffSearch that finds nothing leaves its token in the map, under an *)
(* id nothing has any more.)                                                *)
Complete(w) ==
    /\ stage[w] = "complete"
    /\ \/ EndRow(w) /\ UNCHANGED <<orphans, mishaps>>
       \/ w \in running /\ Mishap /\ LeavesRow(w)
    /\ IF kind[w] \in Cancellable \ {"seriesMissing"}
       THEN /\ stage' = [stage EXCEPT ![w] = "forget"]
            /\ UNCHANGED <<kind, todo, left, cancelled, history>>
       ELSE Over(w)
    /\ UNCHANGED <<tokens, control>>

Forget(w) ==
    /\ stage[w] = "forget"
    /\ tokens' = tokens \ {w}
    /\ IF kind[w] = "seriesMissing"
       THEN /\ stage' = [stage EXCEPT ![w] = "complete"]
            /\ UNCHANGED <<kind, todo, left, cancelled, history>>
       ELSE Over(w)
    /\ UNCHANGED <<running, old, orphans, mishaps, control>>

(* A spawned search panics, or the client of a scan hangs up: the row and   *)
(* the token stay.  The scheduler catches the panics of its own search.     *)
Die(w) ==
    /\ stage[w] \in {"list", "loop", "progress", "search", "complete"} /\ w \in Commands
    /\ mishaps < MaxMishaps
    /\ mishaps' = mishaps + 1
    /\ LeavesRow(w)
    /\ tokens' = tokens \ {w}
    /\ Over(w)
    /\ UNCHANGED control

CancelSearch(w) ==
    /\ w \in tokens
    /\ tokens' = tokens \ {w}
    /\ cancelled' = cancelled \cup {w}
    /\ UNCHANGED <<kind, stage, todo, left, running, old, orphans, mishaps, control,
                   history>>

(* DELETE /activities takes the running ones too.                           *)
Clear ==
    /\ running' = {} /\ old' = {} /\ orphans' = {}
    /\ UNCHANGED <<kind, stage, todo, left, tokens, cancelled, mishaps, control, history>>

(* The daily cleanup takes what began a week ago. *)
Prune ==
    /\ \E S \in SUBSET old : running' = running \ S /\ old' = old \ S
    /\ \E O \in SUBSET {o \in orphans : o.old} : orphans' = orphans \ O
    /\ UNCHANGED <<kind, stage, todo, left, tokens, cancelled, mishaps, control, history>>

Age(w) ==
    /\ w \in Young
    /\ old' = old \cup {w}
    /\ UNCHANGED <<kind, stage, todo, left, running, tokens, cancelled, orphans, mishaps, control,
                   history>>

AgeOrphans ==
    /\ \E o \in orphans : ~o.old
    /\ orphans' = {[o EXCEPT !.old = TRUE] : o \in orphans}
    /\ UNCHANGED <<kind, stage, todo, left, running, old, tokens, cancelled, mishaps, control,
                   history>>

(* The program stops, and starts again with what the table holds.           *)
Restart ==
    /\ \/ orphans' = {} /\ UNCHANGED mishaps
       \/ /\ Mishap
          /\ orphans' = orphans \cup Left(Slots)
    /\ kind' = [w \in Slots |-> "none"]
    /\ stage' = [w \in Slots |-> "idle"]
    /\ todo' = [w \in Slots |-> <<>>]
    /\ left' = [w \in Slots |-> 0]
    /\ running' = {} /\ old' = {} /\ tokens' = {} /\ cancelled' = {}
    /\ permit' = FALSE /\ asked' = FALSE
    /\ late' = [w \in Slots |-> 0]
    /\ before' = [w \in Slots |-> {}]
    /\ unanswered' = [w \in Slots |-> {}]

Step(w) == \/ Ask(w) \/ Create(w) \/ Token(w) \/ List(w) \/ Check(w) \/ Progress(w)
           \/ Searched(w) \/ Complete(w) \/ Forget(w)

TasksNext ==
    \/ \E w \in Slots : Step(w) \/ CancelSearch(w) \/ Age(w)
    \/ \E w \in Commands : Command(w) \/ Die(w)
    \/ Trigger \/ AutoBegin \/ Clear \/ Prune \/ AgeOrphans \/ Restart

(* Every task is run on, the interval of the automatic search comes round,  *)
(* and time passes.  Commands never keep the interval from coming round, but *)
(* MaxBusy does now and then: hence the strong fairness.                    *)
Fairness == /\ \A w \in Slots : WF_tasksVars(Step(w))
            /\ SF_tasksVars(AutoBegin) /\ WF_tasksVars(AgeOrphans)

TasksSpec == TasksInit /\ [][TasksNext]_tasksVars /\ Fairness

-----------------------------------------------------------------------------
(* Properties *)

TasksTypeOK ==
    /\ kind \in [Slots -> CommandKinds \cup {"auto", "none"}]
    /\ stage \in [Slots -> {"idle", "ask", "create", "token", "list", "loop", "progress",
                         "search", "complete", "forget"}]
    /\ todo \in [Slots -> Seq({"missing", "auto", "seriesMissing", "cutoff", "scan"})]
    /\ \A w \in Slots : left[w] \in 0..MaxItems[w]
    /\ running \subseteq Slots /\ old \subseteq running
    /\ \A w \in running \cup cancelled : stage[w] # "idle"
    /\ orphans \subseteq [type : CommandKinds \cup {"auto"}, old : BOOLEAN]
    /\ permit \in BOOLEAN /\ asked \in BOOLEAN
    /\ mishaps \in 0..MaxMishaps
    /\ \A w \in Slots : stage[w] = "ask" => todo[w] # <<>>
    /\ \A w \in tokens : kind[w] \in Cancellable /\ stage[w] \notin {"idle", "ask", "create"}

(* "Prevent concurrent ...", "Skip if a manual \"Search All Missing\" or      *)
(* another auto search is already running": a search does not get past its  *)
(* questions while one it must heed, running when it began to ask, still is *)
(* and is not thirty minutes old, in whatever order the rows come and go,   *)
(* unless the question that would have told was answered by an error.       *)
GuardHonoured ==
    \A w \in Slots : stage[w] \notin {"idle", "ask"} =>
        \A v \in before[w] \cap Young : ActivityType(kind[v]) \in unanswered[w]

(* Once a cancel is answered, at most one more item is searched. *)
AtMostOneMore == \A w \in Slots : late[w] <= 1

(* A trigger that was answered is never lost on a task that is busy: until  *)
(* a pass begins after it, a permit waits.                                  *)
NoTriggerLost == asked => permit

(* "so they don't permanently block new searches after a crash, restart, or *)
(* panic": the rows left running go, whatever else is searched meanwhile.   *)
Blocking == \E o \in orphans : o.type \in {"missing", "auto", "seriesMissing"}

BlockedSearchesRecover == Blocking ~> ~Blocking
=============================================================================
