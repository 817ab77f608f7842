------------------------------ MODULE Session -------------------------------
(***************************************************************************)
(* The stack of sub-sessions of src/src/session.c.  The engine runs one    *)
(* sub-session; others are saved on the stack.  A script asks for a change *)
(* (load a file, push or exec a script, pop, pop to the root), and         *)
(* Session_ServiceRequests performs it in the next frame.  Scripts run in  *)
(* the middle of that: the handlers of the events that are drained before  *)
(* a sub-session is saved, and the new script itself.                      *)
(*                                                                         *)
(* A sub-session is abstracted to the script run that it came from, and to *)
(* whether an event or a ready task of it was lost when it was saved.      *)
(***************************************************************************)
EXTENDS Naturals, SequencesExt

CONSTANTS
  MaxRuns,            \* bound on the script runs,
  MaxQueue,           \* on the events and ready tasks of a sub-session,
  MaxRequests,        \* and on the requests
  RequestsInService,  \* a script that runs during a service makes requests
  SavesInRun          \* and the one that is being pushed saves the session

Runs == 1 .. MaxRuns
Kinds == {"LOAD", "PUSH", "POP", "POP_TO_ROOT", "EXEC"}
SubSession == [id : Runs, lost : BOOLEAN]

\* A sub-session in a file that cannot be de-serialized.
Bad == [id |-> 0, lost |-> FALSE]

NoRequest == "NONE"

ASSUME SessionAssumption ==
  /\ MaxRuns \in Nat \ {0} /\ MaxQueue \in Nat \ {0} /\ MaxRequests \in Nat
  /\ RequestsInService \in BOOLEAN /\ SavesInRun \in BOOLEAN

VARIABLES
  current,       \* the sub-session the engine runs
  queued,    \* how many events and tasks wait to be handled in it (at most, MaxQueue)
  stack,     \* s_subsession_stack
  request,   \* s_request
  pushing,   \* s_pushing
  file,      \* the sub-sessions in the file that was last saved; none if it cannot be opened
  pc,        \* where Session_ServiceRequests is; "frame" when it is not running
  op,        \* the request it is performing
  stream,    \* the sub-session it saved first, to return to if it fails
  todo,      \* session_load: the sub-sessions still to be loaded,
  loaded,    \* those loaded and saved again
  runs,      \* history: the script runs so far
  asked,     \* history: how many requests were made
  before,    \* history: the stack and the run when the service began
  pushedBy   \* history: the run from which a run was pushed, 0 for the root

reqVars == <<request, asked>>
serviceVars == <<op, stream, todo, loaded, before, pushing>>
runVars == <<runs, pushedBy>>
sessionVars == <<current, queued, stack, reqVars, file, pc, serviceVars, runVars>>

\* A session: the stack and the sub-session that is live
Whole == Append(stack, current)

\* subsession_save, once nothing is left to drain
Undrained == TRUE
Drained == queued = 0
Saved(s) == [s EXCEPT !.lost = @ \/ queued > 0]

\* subsession_load clears what was queued before and by the loading.
Live(s) == current' = s /\ queued' = 0
-----------------------------------------------------------------------------
(* Scripts: the handlers of a frame, those of the events that are drained, *)
(* and the script that is run.                                             *)

InScript ==
  \/ pc \in {"frame", "run"}
  \/ pc \in {"save", "resave"} /\ ~Drained

Notify ==
  /\ InScript
  /\ queued < MaxQueue
  /\ queued' = queued + 1
  /\ UNCHANGED <<current, stack, reqVars, file, pc, serviceVars, runVars>>

\* Session_RequestLoad, ...Push, ...Exec, ...Pop and ...PopToRoot
Request(kind) ==
  /\ InScript
  /\ pc # "frame" => RequestsInService
  /\ asked < MaxRequests
  /\ asked' = asked + 1
  /\ request' = kind
  /\ UNCHANGED <<current, queued, stack, file, pc, serviceVars, runVars>>

\* Session_Save, from a script: it drains the queues itself.
Save ==
  /\ InScript
  /\ pc # "resave"    \* The file being read is not overwritten.
  /\ pc = "run" => SavesInRun
  /\ queued' = 0
  /\ file' = Whole
  /\ UNCHANGED <<current, stack, reqVars, pc, serviceVars, runVars>>

\* The file cannot be opened, is of a later version, or is damaged.
Replace ==
  /\ pc = "frame"
  /\ file' \in {<<>>} \cup {[file EXCEPT ![i] = Bad] : i \in DOMAIN file}
  /\ UNCHANGED <<current, queued, stack, reqVars, pc, serviceVars, runVars>>

\* One event or task is handled: by the frame, or by the drain.
Handle ==
  /\ pc \in {"frame", "save", "resave"}
  /\ queued > 0
  /\ queued' = queued - 1
  /\ UNCHANGED <<current, stack, reqVars, file, pc, serviceVars, runVars>>
-----------------------------------------------------------------------------
(* Session_ServiceRequests *)

\* Its end: the outcome is notified in the sub-session that is now live.
AfterPush == FALSE

Finish(q) ==
  /\ queued' = Min({q + 1, MaxQueue})
  /\ request' = NoRequest
  /\ pushing' = AfterPush
  /\ pc' = "frame"
  /\ UNCHANGED asked

Start(p) ==
  /\ pc = "frame"
  /\ request # NoRequest
  /\ op' = request
  /\ before' = Append(stack, current)
  /\ pc' = p

\* session_load, session_push_subsession, session_exec_subsession: save first.
StartSave ==
  /\ Start("save")
  /\ request \in {"LOAD", "PUSH", "EXEC"}
  /\ pushing' = (request = "PUSH")
  /\ UNCHANGED <<current, queued, stack, reqVars, file, stream, todo, loaded, runVars>>

\* session_pop_subsession, session_pop_subsession_to_root: which one is loaded,
\* and what is left of the stack.
PopTarget(kind) == IF kind = "POP" THEN Len(stack) ELSE 1
Left(i) == SubSeq(stack, 1, i - 1)

Pop ==
  /\ Start("frame")
  /\ request \in {"POP", "POP_TO_ROOT"}
  /\ stack # <<>>
  /\ LET i == PopTarget(request)
     IN  /\ current' = stack[i]
         /\ stack' = Left(i)
  /\ Finish(1)   \* EVENT_SESSION_POPPED is notified too.
  /\ UNCHANGED <<file, stream, todo, loaded, runVars>>

PopFails ==
  /\ Start("frame")
  /\ request \in {"POP", "POP_TO_ROOT"}
  /\ stack = <<>>
  /\ Finish(queued)
  /\ UNCHANGED <<current, stack, file, stream, todo, loaded, runVars>>

\* session_load: the current sub-session is saved, then the file is opened.
OpenFile ==
  /\ pc = "save" /\ op = "LOAD" /\ Drained
  /\ file # <<>>
  /\ stream' = Saved(current)
  /\ todo' = file /\ loaded' = <<>>
  /\ pc' = "load"
  /\ UNCHANGED <<current, queued, stack, reqVars, file, op, before, pushing, runVars>>

OpenFails ==
  /\ pc = "save" /\ op = "LOAD" /\ Drained
  /\ file = <<>>
  /\ Finish(queued)
  /\ UNCHANGED <<current, stack, file, op, stream, todo, loaded, before, runVars>>

\* One sub-session of the file becomes live; loading it may make tasks ready.
LoadNext ==
  /\ pc = "load" /\ todo # <<>>
  /\ Head(todo) # Bad
  /\ current' = Head(todo)
  /\ queued' \in {0, 1}
  /\ todo' = Tail(todo)
  /\ pc' = "resave"
  /\ UNCHANGED <<stack, reqVars, file, op, stream, loaded, before, pushing, runVars>>

\* It is drained and saved again.
Resave ==
  /\ pc = "resave" /\ Drained
  /\ loaded' = Append(loaded, Saved(current))
  /\ pc' = "load"
  /\ UNCHANGED <<current, queued, stack, reqVars, file, op, stream, todo, before, pushing, runVars>>

\* The rollback when one of them cannot be loaded.
NotRolledBack == current
RolledBackTo == stream

LoadFails ==
  /\ pc = "load" /\ todo # <<>>
  /\ Head(todo) = Bad
  /\ current' = RolledBackTo
  /\ Finish(0)
  /\ UNCHANGED <<stack, file, op, stream, todo, loaded, before, runVars>>

\* The last one is live and not kept on the stack, which is replaced.
NotPopped == loaded
NewStack == Front(loaded)

LoadDone ==
  /\ pc = "load" /\ todo = <<>>
  /\ stack' = NewStack
  /\ Finish(queued)
  /\ UNCHANGED <<current, file, op, stream, todo, loaded, before, runVars>>

\* Push and exec: the current sub-session is saved and cleared, and the script run.
RunScript ==
  /\ pc = "save" /\ op \in {"PUSH", "EXEC"} /\ Drained
  /\ runs < MaxRuns
  /\ stream' = Saved(current)
  /\ runs' = runs + 1
  /\ Live([id |-> runs + 1, lost |-> FALSE])
  /\ pushedBy' = [pushedBy EXCEPT ![runs + 1] =
                    IF op = "PUSH" THEN current.id ELSE pushedBy[current.id]]
  /\ pc' = "run"
  /\ UNCHANGED <<stack, reqVars, file, op, todo, loaded, before, pushing>>

\* What remains of the saved sub-session when the script has run.
KeptAlways == Append(stack, stream)
KeptStack == IF op = "PUSH" THEN Append(stack, stream) ELSE stack

ScriptDone ==
  /\ pc = "run"
  /\ stack' = KeptStack
  /\ Finish(queued)
  /\ UNCHANGED <<current, file, op, stream, todo, loaded, before, runVars>>

ScriptFails ==
  /\ pc = "run"
  /\ current' = RolledBackTo
  /\ Finish(0)
  /\ UNCHANGED <<stack, file, op, stream, todo, loaded, before, runVars>>

\* Session_Shutdown
Shutdown ==
  /\ pc = "frame"
  /\ stack' = <<>>
  /\ pc' = "end"
  /\ UNCHANGED <<current, queued, reqVars, file, serviceVars, runVars>>
-----------------------------------------------------------------------------
\* Session_Init, and the script named on the command line
SessionInit ==
  /\ current = [id |-> 1, lost |-> FALSE]
  /\ queued = 0
  /\ stack = <<>> /\ file = <<>> /\ todo = <<>> /\ loaded = <<>>
  /\ request = NoRequest /\ op = NoRequest
  /\ pushing = FALSE
  /\ pc = "frame"
  /\ stream = current /\ before = <<current>>
  /\ runs = 1 /\ asked = 0
  /\ pushedBy = [r \in Runs |-> 0]

Script == Notify \/ Save \/ Handle \/ \E k \in Kinds : Request(k)

Service ==
  \/ StartSave \/ Pop \/ PopFails
  \/ OpenFile \/ OpenFails \/ LoadNext \/ Resave \/ LoadFails \/ LoadDone
  \/ RunScript \/ ScriptDone \/ ScriptFails

SessionNext == Script \/ Replace \/ Service \/ Shutdown

SessionSpec == SessionInit /\ [][SessionNext]_sessionVars
-----------------------------------------------------------------------------
(* Properties *)

SessionTypeOK ==
  /\ current \in SubSession /\ stream \in SubSession
  /\ queued \in 0 .. MaxQueue
  /\ stack \in Seq(SubSession) /\ loaded \in Seq(SubSession)
  /\ todo \in Seq(SubSession \cup {Bad}) /\ file \in Seq(SubSession \cup {Bad})
  /\ {request, op} \subseteq Kinds \cup {NoRequest}
  /\ pc \in {"frame", "save", "load", "resave", "run", "end"}
  /\ pushing => pc \in {"save", "run"}
  /\ runs \in Runs /\ asked \in 0 .. MaxRequests

\* The comment in subsession_save: no event, and no ready task, is lost when the
\* engine moves from session to session.
NothingLost ==
  \A s \in ToSet(Whole) \cup ToSet(loaded) \cup ToSet(file) \cup {stream} : ~s.lost

\* No event and no ready task is lost, and every variable has its type.
SessionsKept == SessionTypeOK /\ NothingLost

\* The stack is the chain of those who pushed each other, whatever was loaded,
\* rolled back, replaced or popped in between: each pop returns to the one that
\* pushed.
Lineage ==
  pc = "frame" =>
    /\ pushedBy[Whole[1].id] = 0
    /\ \A i \in DOMAIN stack : pushedBy[Whole[i + 1].id] = Whole[i].id

\* A request that fails leaves the session as it was when it was serviced.
RollbackExact ==
  [][(LoadFails \/ ScriptFails \/ OpenFails) =>
       /\ stack' = Front(before)
       /\ current'.id = Last(before).id /\ ~current'.lost]_sessionVars

\* A file that was saved is loaded to the very sub-sessions that were saved, the
\* last of which is the live one.
LoadRestores ==
  [][LoadDone => [i \in DOMAIN Whole' |-> Whole'[i].id] =
                 [i \in DOMAIN file |-> file[i].id]]_sessionVars
-----------------------------------------------------------------------------
(* The inductive invariant of which these properties follow *)

TypesOK ==
  /\ SessionTypeOK
  /\ pushedBy \in [Runs -> 0 .. MaxRuns]
  /\ pushing => op = "PUSH"

\* A saved sub-session is of a run that took place, and nothing of it was lost.
KnownRun(s) == s # Bad => s.id <= runs /\ ~s.lost

AllKnown ==
  /\ KnownRun(current) /\ KnownRun(stream)
  /\ \A s \in {stack, todo, file} : \A i \in DOMAIN s : KnownRun(s[i])
  /\ \A i \in DOMAIN loaded : ~loaded[i].lost

\* A sequence of sub-sessions of which each was pushed by the one below it.
Below(s, i) == IF i = 1 THEN 0 ELSE s[i - 1].id
Chain(s) ==
  \A i \in DOMAIN s :
    s[i] # Bad /\ (i > 1 => s[i - 1] # Bad) => pushedBy[s[i].id] = Below(s, i)

OnTop(s) == pushedBy[s.id] = IF stack = <<>> THEN 0 ELSE Last(stack).id

\* The sub-session on top of the stack is the live one or the one that was saved.
ChainsOK ==
  /\ Chain(file)
  /\ Chain(stack)
  /\ pc \in {"frame", "save"} => OnTop(current)
  /\ pc \in {"load", "resave", "run"} => OnTop(stream)
  /\ pc = "run" => /\ op \in {"PUSH", "EXEC"}
                   /\ pushedBy[current.id] = IF op = "PUSH" THEN stream.id ELSE pushedBy[stream.id]

\* How far session_load has come with the file.
Reached == Len(loaded) + IF pc = "resave" THEN 1 ELSE 0

LoadOK ==
  pc \in {"load", "resave"} =>
    /\ file # <<>>
    /\ Len(file) = Reached + Len(todo)
    /\ \A i \in DOMAIN loaded : loaded[i].id = file[i].id
    /\ \A i \in DOMAIN todo : todo[i] = file[Reached + i]
    /\ Reached > 0 => current.id = file[Reached].id

BeforeOK ==
  /\ pc = "save" => before = Append(stack, current)
  /\ pc \in {"load", "resave", "run"} => before = Append(stack, stream)

SessionInv == TypesOK /\ AllKnown /\ ChainsOK /\ LoadOK /\ BeforeOK
=============================================================================
