----------------------------- MODULE RenderSync -----------------------------
(***************************************************************************)
(* The hand-over of render commands from the main thread to the render     *)
(* thread: render_thread_start_work, render_thread_wait_done and the       *)
(* Engine_* functions of src/src/main.c, the loop of render() in           *)
(* src/src/render/render.c, and the two workspaces that G_SwapBuffers of   *)
(* src/src/game/game.c exchanges.                                          *)
(*                                                                         *)
(* Each of the two condition variables has one waiting thread, and every   *)
(* wait is in a loop on its flag: waiting is modelled by the flag as a     *)
(* guard.  A command is only counted.                                      *)
(***************************************************************************)
EXTENDS Naturals

CONSTANTS
  MaxCmds,     \* bound on the commands queued in a workspace
  SlowStart,   \* the batch UI_Init leaves running may outlast the script's start
  QuitInLoad   \* a session request may be serviced after the user quit

ASSUME RenderAssumption ==
  MaxCmds \in Nat /\ SlowStart \in BOOLEAN /\ QuitInLoad \in BOOLEAN

VARIABLES
  start, quit,  \* flags of struct render_sync_state, under sq_lock
  done,         \* and under done_lock
  cmds,         \* the number of commands in each of the two workspaces
  cur,          \* s_gs.curr_ws_idx, the workspace of the simulation
  rpc,          \* where the render thread is
  rws,          \* the workspace it is working on
  mpc,          \* where the main thread is
  reset,        \* main is between the two halves of render_thread_start_work
  ret,          \* where Engine_FlushRenderWorkQueue returns to
  userQuit      \* s_quit

renderVars == <<rpc, rws>>
syncVars == <<start, quit, done, cmds, cur, renderVars, mpc, reset, ret, userQuit>>

SimWS == cur
RenderWS == 1 - cur

\* G_GetRenderWS
FetchedSim == SimWS
Fetched == RenderWS
-----------------------------------------------------------------------------
(* The render thread *)

\* The first command initialises the context.
Boot ==
  /\ rpc = "boot" /\ start
  /\ start' = FALSE
  /\ rpc' = "signal"
  /\ UNCHANGED <<quit, done, cmds, cur, rws, mpc, reset, ret, userQuit>>

\* render_wait_cmd
Command ==
  /\ rpc = "cmd"
  /\ start \/ quit
  /\ IF quit THEN quit' = FALSE /\ start' = start /\ rpc' = "gone"
             ELSE start' = FALSE /\ quit' = quit /\ rpc' = "fetch"
  /\ UNCHANGED <<done, cmds, cur, rws, mpc, reset, ret, userQuit>>

Fetch ==
  /\ rpc = "fetch"
  /\ rws' = Fetched
  /\ rpc' = "work"
  /\ UNCHANGED <<start, quit, done, cmds, cur, mpc, reset, ret, userQuit>>

\* render_process_cmds
NonEmpty == cmds[rws] > 0

Execute ==
  /\ rpc = "work" /\ NonEmpty
  /\ cmds' = [cmds EXCEPT ![rws] = @ - 1]
  /\ UNCHANGED <<start, quit, done, cur, renderVars, mpc, reset, ret, userQuit>>

Present ==
  /\ rpc = "work" /\ ~NonEmpty
  /\ rpc' = "signal"
  /\ UNCHANGED <<start, quit, done, cmds, cur, rws, mpc, reset, ret, userQuit>>

\* render_signal_done
SignalDone ==
  /\ rpc = "signal"
  /\ done' = TRUE
  /\ rpc' = "cmd"
  /\ UNCHANGED <<start, quit, cmds, cur, rws, mpc, reset, ret, userQuit>>
-----------------------------------------------------------------------------
(* The functions the main thread is made of, each from one place to the next *)

At(here, next) == mpc = here /\ mpc' = next

\* render_thread_start_work takes the two locks one after the other.
StartWork(here, next) ==
  /\ mpc = here
  /\ reset' = ~reset
  /\ IF reset THEN start' = TRUE /\ done' = done /\ mpc' = next
              ELSE done' = FALSE /\ start' = start /\ mpc' = here
  /\ UNCHANGED <<quit, cmds, cur, renderVars, ret, userQuit>>

\* render_thread_wait_done
Anyway == TRUE
IsDone == done

WaitDone(here, next) ==
  /\ At(here, next)
  /\ IsDone
  /\ done' = FALSE
  /\ UNCHANGED <<start, quit, cmds, cur, renderVars, reset, ret, userQuit>>

\* Engine_WaitRenderWorkDone does not acknowledge, nor wait once the user quit.
Quiet == done \/ userQuit
Acknowledged == done' = FALSE
NotAcknowledged == done' = done

WaitRenderWorkDone(here, next) ==
  /\ At(here, next)
  /\ Quiet
  /\ NotAcknowledged
  /\ UNCHANGED <<start, quit, cmds, cur, renderVars, reset, ret, userQuit>>

\* R_PushCmd on the main thread
PushCmd ==
  /\ mpc \in {"init", "prepare", "frame", "load", "render", "down"}
  /\ ~reset
  /\ cmds[SimWS] < MaxCmds
  /\ cmds' = [cmds EXCEPT ![SimWS] = @ + 1]
  /\ UNCHANGED <<start, quit, done, cur, renderVars, mpc, reset, ret, userQuit>>

\* G_SwapBuffers: the workspace of the render thread is cleared and becomes that
\* of the simulation.
SwapBuffers(here, next) ==
  /\ At(here, next)
  /\ cmds' = [cmds EXCEPT ![RenderWS] = 0]
  /\ cur' = RenderWS
  /\ UNCHANGED <<start, quit, done, renderVars, reset, ret, userQuit>>

\* Engine_FlushRenderWorkQueue
CallFlush(here, back) ==
  /\ At(here, "flush1")
  /\ ret' = back
  /\ UNCHANGED <<start, quit, done, cmds, cur, renderVars, reset, userQuit>>

FlushRenderWorkQueue ==
  \/ StartWork("flush1", "flush1 wait")
  \/ WaitDone("flush1 wait", "flush1 swap")
  \/ SwapBuffers("flush1 swap", "flush2")
  \/ StartWork("flush2", "flush2 wait")
  \/ WaitDone("flush2 wait", "flush2 swap")
  \/ SwapBuffers("flush2 swap", "flush3")
  \/ StartWork("flush3", ret)

\* Control goes on with nothing done.
Jump(here, next) ==
  /\ At(here, next)
  /\ UNCHANGED <<start, quit, done, cmds, cur, renderVars, reset, ret, userQuit>>
-----------------------------------------------------------------------------
(* engine_init, main, Session_ServiceRequests and engine_shutdown *)

EngineInit ==
  \/ StartWork("boot", "boot wait")
  \/ WaitDone("boot wait", "init")
  \/ CallFlush("init", "prepare")      \* UI_Init uploads the font atlas

RenderIdle == rpc = "cmd" /\ ~start

\* The script has run, the first frame is simulated.
Prepare ==
  /\ SlowStart \/ RenderIdle
  /\ SwapBuffers("prepare", "loop")

\* SDL_QUIT
UserQuit ==
  /\ mpc = "frame"
  /\ ~userQuit
  /\ userQuit' = TRUE
  /\ UNCHANGED <<start, quit, done, cmds, cur, renderVars, mpc, reset, ret>>

Frame ==
  \/ ~userQuit /\ StartWork("loop", "frame")
  \/ Jump("frame", "render")
  \/ WaitDone("render", "end")
  \/ SwapBuffers("end", "loop")

\* A request empties both workspaces (G_ClearRenderWork) and frees the map of
\* the previous tick, once per subsession; one that is loaded, and not made by a
\* script, is followed by a flush.
ClearRenderWork ==
  /\ At("clear", "load")
  /\ Quiet
  /\ cmds' = [i \in {0, 1} |-> 0]
  /\ UNCHANGED <<start, quit, done, cur, renderVars, reset, ret, userQuit>>

ServiceRequests ==
  \/ (QuitInLoad \/ ~userQuit) /\ WaitRenderWorkDone("frame", "clear")
  \/ ClearRenderWork
  \/ CallFlush("load", "loaded")
  \/ Jump("load", "render")
  \/ Jump("loaded", "clear")
  \/ Jump("loaded", "render")

RenderThreadQuit ==
  /\ At("quit", "join")
  /\ quit' = TRUE
  /\ UNCHANGED <<start, done, cmds, cur, renderVars, reset, ret, userQuit>>

EngineShutdown ==
  \/ userQuit /\ Jump("loop", "down")
  \/ StartWork("down", "down wait")
  \/ WaitDone("down wait", "quit")
  \/ RenderThreadQuit
  \/ rpc = "gone" /\ Jump("join", "free")
  \/ WaitRenderWorkDone("free", "over")     \* g_clear_map_state in G_Shutdown
-----------------------------------------------------------------------------
SyncInit ==
  /\ start = FALSE /\ quit = FALSE /\ done = FALSE
  /\ cmds = [i \in {0, 1} |-> 0]
  /\ cur = 0
  /\ rpc = "boot" /\ rws = 0
  /\ mpc = "boot" /\ reset = FALSE /\ ret = "prepare"
  /\ userQuit = FALSE

RenderStep == Boot \/ Command \/ Fetch \/ Execute \/ Present \/ SignalDone

MainStep ==
  \/ EngineInit \/ Prepare \/ Frame \/ FlushRenderWorkQueue
  \/ ServiceRequests \/ EngineShutdown

SyncNext == RenderStep \/ MainStep \/ PushCmd \/ UserQuit

SyncSpec == SyncInit /\ [][SyncNext]_syncVars

\* Both threads are scheduled; a frame makes finitely many commands, and a
\* session file has finitely many subsessions.
SyncFairSpec ==
  /\ SyncSpec
  /\ WF_syncVars(RenderStep) /\ WF_syncVars(MainStep)
  /\ SF_syncVars(Jump("loaded", "render"))
-----------------------------------------------------------------------------
(* Properties *)

SyncTypeOK ==
  /\ {start, quit, done, reset, userQuit} \subseteq BOOLEAN
  /\ cmds \in [{0, 1} -> 0 .. MaxCmds]
  /\ cur \in {0, 1} /\ rws \in {0, 1}
  /\ rpc \in {"boot", "cmd", "fetch", "work", "signal", "gone"}
  /\ mpc \in {"boot", "boot wait", "init", "prepare", "loop", "frame", "render", "end",
              "clear", "load", "loaded", "flush1", "flush1 wait", "flush1 swap", "flush2",
              "flush2 wait", "flush2 swap", "flush3", "down", "down wait", "quit", "join",
              "free", "over"}
  /\ ret \in {"prepare", "loaded"}

\* The assertion of G_SwapBuffers: the batch handed to the render thread has been
\* executed to its last command when the workspaces are exchanged.
SwapFindsEmpty ==
  mpc \in {"prepare", "end", "flush1 swap", "flush2 swap"} => cmds[RenderWS] = 0

\* The simulation never adds commands to, and G_SwapBuffers never exchanges, the
\* workspace the render thread is working on.
OwnWorkspace ==
  rpc = "work" => rws = RenderWS

\* Work is only handed to a render thread that waits for a command, so that no
\* batch is merged with the one before it and no answer taken for another's.
StartsIdle ==
  reset => RenderIdle \/ rpc = "boot"

\* The hand-over of a batch is exclusive from the boot to the shutdown: what
\* SyncTypeOK, SwapFindsEmpty, OwnWorkspace and StartsIdle say together.
HandoverSafe == SyncTypeOK /\ SwapFindsEmpty /\ OwnWorkspace /\ StartsIdle

\* g_clear_map_state and G_ClearRenderWork: the render thread is done with the
\* workspaces and the previous tick's map before they are cleared and freed.
ClearedWhenIdle ==
  [][mpc = "clear" /\ mpc' = "load" => RenderIdle]_syncVars

\* A frame reaches its end: a wait for the render thread that leaves the flag
\* alone does not take the answer from the one at the end of the frame.
FrameEnds == mpc = "frame" ~> mpc = "loop"

\* The engine shuts down, although nothing answers the last wait of G_Shutdown.
ShutdownEnds == mpc = "down" ~> mpc = "over"

\* No wait for the render thread is for ever, neither in a frame nor at the end.
WaitsEnd == FrameEnds /\ ShutdownEnds
-----------------------------------------------------------------------------
(* The inductive invariant of which the safety properties follow, when neither *)
(* of the two unordered pairs of events meets.                                 *)

Ordered == ~SlowStart /\ ~QuitInLoad

\* Where the main thread knows that no batch is being worked on: it has waited for
\* the last one and not started the next.
Quiescent == {"init", "flush1", "flush1 swap", "flush2", "flush2 swap", "flush3",
              "loop", "end", "load", "down", "quit"}

\* The two threads: what the place of the one says of that of the other.
ThreadsOK ==
  /\ mpc = "boot" => rpc = "boot" /\ ~start
  /\ rpc = "boot" => mpc \in {"boot", "boot wait"}
  /\ mpc \in Quiescent => RenderIdle
  /\ mpc = "join" => rpc \in {"cmd", "gone"} /\ ~start /\ ~done
  /\ mpc \in {"free", "over"} => rpc = "gone"
  /\ rpc = "gone" => mpc \in {"join", "free", "over"}

\* The flags: at most one of a start, a batch under way and an answer.
FlagsOK ==
  /\ start => rpc \in {"boot", "cmd"}
  /\ done => RenderIdle
  /\ reset => mpc \in {"boot", "flush1", "flush2", "flush3", "loop", "down"} /\ ~done
  /\ mpc \in {"flush1 swap", "flush2 swap", "quit"} => ~done
  /\ quit => mpc = "join" /\ rpc = "cmd"
  /\ userQuit => mpc \in {"frame", "render", "end", "loop", "down", "down wait", "quit",
                          "join", "free", "over"}

\* The workspaces: which of them is known to be empty, and when.
WorkspacesOK ==
  /\ OwnWorkspace
  /\ SwapFindsEmpty
  /\ rpc = "signal" \/ (done /\ mpc \notin {"loop", "down"}) => cmds[RenderWS] = 0
  /\ mpc \in {"boot", "boot wait", "flush3"} => cmds[SimWS] = 0 /\ cmds[RenderWS] = 0
  /\ mpc \in {"flush2", "flush2 wait", "flush2 swap"} => cmds[SimWS] = 0

SyncInv == SyncTypeOK /\ ThreadsOK /\ FlagsOK /\ WorkspacesOK
=============================================================================
