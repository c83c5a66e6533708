---------------------------- MODULE DesktopAuth ----------------------------
(***************************************************************************)
(* Signing in and out of the desktop application: the Tauri commands       *)
(* start_auth, poll_auth and sign_out (apps/desktop/src-tauri) over the    *)
(* auth_flow mutex and the session lock, and the part of App.tsx that      *)
(* calls them. The user approves a grant on another device at any time.    *)
(*                                                                         *)
(* Commands are tasks of one runtime and interleave at every lock. The     *)
(* interface polls on a timer that does not wait for the poll before, so   *)
(* several polls may be in progress (Polls); its other calls are guarded   *)
(* by "busy" and come one at a time.                                       *)
(***************************************************************************)
EXTENDS Naturals

CONSTANTS
    Polls,     \* poll_auth calls that may overlap
    NoPoll,    \* the auth_flow mutex is free
    MaxFlows   \* bound of the model: authorization flows started

ASSUME NoPollAssumption == NoPoll \notin Polls
ASSUME MaxFlowsAssumption == MaxFlows \in Nat

VARIABLES
    flow,       \* content of auth_flow; 0 is None
    flowLock,   \* the poll that holds auth_flow
    session,    \* content of session: the flow it came from, 0 for None
    poll,       \* the poll_auth calls
    command,    \* the start_auth or sign_out call in progress
    ui,         \* the interface: auth.authenticated and authUrl
    flows,      \* flows started so far
    approved,   \* flows the user has approved
    consumed,   \* flows whose grant a poll has received
    signedOut   \* history: flows that a completed sign_out put an end to

authVars == <<flow, flowLock, session, poll, command, ui, flows, approved, consumed, signedOut>>

Flow == 1..MaxFlows
OptionFlow == 0..MaxFlows
PollState == [pc : {"idle", "lock", "try", "store", "clear", "return"},
              flow : OptionFlow,                       \* the flow it polls
              answer : {"none", "in", "out", "error"}] \* what it returns
IdlePoll == [pc |-> "idle", flow |-> 0, answer |-> "none"]
CommandState == [pc : {"idle", "install", "started", "flow", "session", "status"},
                 flow : OptionFlow,       \* start_auth: the new flow
                 before : OptionFlow]     \* sign_out: flows started when it cleared auth_flow
IdleCommand == [pc |-> "idle", flow |-> 0, before |-> 0]

AuthTypeOK ==
    /\ flow \in OptionFlow /\ session \in OptionFlow /\ flows \in OptionFlow
    /\ flowLock \in Polls \cup {NoPoll}
    /\ poll \in [Polls -> PollState]
    /\ command \in CommandState
    /\ ui \in [auth : BOOLEAN, url : OptionFlow]
    /\ approved \subseteq Flow /\ consumed \subseteq Flow /\ signedOut \subseteq Flow

AuthInit ==
    /\ flow = 0 /\ session = 0 /\ flows = 0
    /\ flowLock = NoPoll
    /\ poll = [p \in Polls |-> IdlePoll]
    /\ command = IdleCommand
    /\ ui = [auth |-> FALSE, url |-> 0]
    /\ approved = {} /\ consumed = {} /\ signedOut = {}
-----------------------------------------------------------------------------
(* poll_auth *)

\* The interval of App.tsx: it runs while an authorization is displayed.
PollTick(p) ==
    /\ poll[p].pc = "idle"
    /\ ui.url # 0 /\ ~ui.auth
    /\ poll' = [poll EXCEPT ![p] = [IdlePoll EXCEPT !.pc = "lock"]]
    /\ UNCHANGED <<flow, flowLock, session, command, ui, flows, approved, consumed, signedOut>>

Status == IF session # 0 THEN "in" ELSE "out"

\* The guard of auth_flow. Without a flow the call answers with auth_status.
PollLock(p) ==
    /\ poll[p].pc = "lock" /\ flowLock = NoPoll
    /\ IF flow = 0
         THEN /\ poll' = [poll EXCEPT ![p] = [@ EXCEPT !.pc = "return", !.answer = Status]]
              /\ UNCHANGED flowLock
         ELSE /\ poll' = [poll EXCEPT ![p] = [@ EXCEPT !.pc = "try", !.flow = flow]]
              /\ flowLock' = p
    /\ UNCHANGED <<flow, session, command, ui, flows, approved, consumed, signedOut>>

\* try_poll_once fails, or has nothing yet (or nothing any more).
PollNothing(p, answer) ==
    /\ poll[p].pc = "try"
    /\ answer = "error" \/ poll[p].flow \notin approved \ consumed
    /\ poll' = [poll EXCEPT ![p] = [@ EXCEPT !.pc = "return", !.answer = answer]]
    /\ flowLock' = NoPoll
    /\ UNCHANGED <<flow, session, command, ui, flows, approved, consumed, signedOut>>

\* try_poll_once returns the session, the guard still held. Defect: the guard ends
\* with the call that needed the flow.
PollGrantUnguarded(p) ==
    /\ poll[p].pc = "try"
    /\ poll[p].flow \in approved \ consumed
    /\ consumed' = consumed \cup {poll[p].flow}
    /\ poll' = [poll EXCEPT ![p].pc = "store"]
    /\ flowLock' = NoPoll
    /\ UNCHANGED <<flow, session, command, ui, flows, approved, signedOut>>
PollGrant(p) ==
    /\ poll[p].pc = "try"
    /\ poll[p].flow \in approved \ consumed
    /\ consumed' = consumed \cup {poll[p].flow}
    /\ poll' = [poll EXCEPT ![p].pc = "store"]
    /\ UNCHANGED <<flow, flowLock, session, command, ui, flows, approved, signedOut>>

\* The session is stored, then the guard dropped. Defect: it is not, and the second
\* lock waits for it.
PollStoreUndropped(p) ==
    /\ poll[p].pc = "store"
    /\ session' = poll[p].flow
    /\ poll' = [poll EXCEPT ![p].pc = "clear"]
    /\ UNCHANGED <<flow, flowLock, command, ui, flows, approved, consumed, signedOut>>
PollStore(p) ==
    /\ poll[p].pc = "store"
    /\ session' = poll[p].flow
    /\ flowLock' = NoPoll
    /\ poll' = [poll EXCEPT ![p].pc = "clear"]
    /\ UNCHANGED <<flow, command, ui, flows, approved, consumed, signedOut>>

\* auth_flow is locked again and emptied, whatever flow it holds by now.
PollClear(p) ==
    /\ poll[p].pc = "clear" /\ flowLock = NoPoll
    /\ flow' = 0
    /\ poll' = [poll EXCEPT ![p] = [@ EXCEPT !.pc = "return", !.answer = "in"]]
    /\ UNCHANGED <<flowLock, session, command, ui, flows, approved, consumed, signedOut>>

\* The interface applies the answer; an error leaves the code on display.
PollReturn(p) ==
    /\ poll[p].pc = "return"
    /\ ui' = CASE poll[p].answer = "in" -> [auth |-> TRUE, url |-> 0]
               [] poll[p].answer = "out" -> [ui EXCEPT !.auth = FALSE]
               [] OTHER -> ui
    /\ poll' = [poll EXCEPT ![p] = IdlePoll]
    /\ UNCHANGED <<flow, flowLock, session, command, flows, approved, consumed, signedOut>>
-----------------------------------------------------------------------------
(* start_auth and sign_out *)

\* beginAuth, when no code is on display or the one that is has expired (restartAuth
\* takes it off first): the flow is created before the lock.
StartAuth ==
    /\ command.pc = "idle" /\ ~ui.auth
    /\ flows < MaxFlows
    /\ flows' = flows + 1
    /\ command' = [IdleCommand EXCEPT !.pc = "install", !.flow = flows + 1]
    /\ ui' = [ui EXCEPT !.url = 0]
    /\ UNCHANGED <<flow, flowLock, session, poll, approved, consumed, signedOut>>

\* restartAuth before the expiry: beginAuth still sees the old authUrl and returns.
StartOver ==
    /\ command.pc = "idle" /\ ~ui.auth /\ ui.url # 0
    /\ ui' = [ui EXCEPT !.url = 0]
    /\ UNCHANGED <<flow, flowLock, session, poll, command, flows, approved, consumed, signedOut>>

StartInstall ==
    /\ command.pc = "install" /\ flowLock = NoPoll
    /\ flow' = command.flow
    /\ command' = [command EXCEPT !.pc = "started"]
    /\ UNCHANGED <<flowLock, session, poll, ui, flows, approved, consumed, signedOut>>

StartReturn ==
    /\ command.pc = "started"
    /\ ui' = [ui EXCEPT !.url = command.flow]
    /\ command' = IdleCommand
    /\ UNCHANGED <<flow, flowLock, session, poll, flows, approved, consumed, signedOut>>

SignOut ==
    /\ command.pc = "idle" /\ ui.auth
    /\ command' = [IdleCommand EXCEPT !.pc = "flow"]
    /\ UNCHANGED <<flow, flowLock, session, poll, ui, flows, approved, consumed, signedOut>>

SignOutFlow ==
    /\ command.pc = "flow" /\ flowLock = NoPoll
    /\ flow' = 0
    /\ command' = [command EXCEPT !.pc = "session", !.before = flows]
    /\ UNCHANGED <<flowLock, session, poll, ui, flows, approved, consumed, signedOut>>

\* The session goes next, under its own lock.
SignOutSession ==
    /\ command.pc = "session"
    /\ session' = 0
    /\ signedOut' = signedOut \cup 1..command.before
    /\ command' = [command EXCEPT !.pc = "status"]
    /\ UNCHANGED <<flow, flowLock, poll, ui, flows, approved, consumed>>

SignOutReturn ==
    /\ command.pc = "status"
    /\ ui' = [auth |-> session # 0, url |-> 0]
    /\ command' = IdleCommand
    /\ UNCHANGED <<flow, flowLock, session, poll, flows, approved, consumed, signedOut>>

\* The user approves a flow whose code was displayed.
Approve(f) ==
    /\ f <= flows /\ f \notin approved
    /\ command.flow # f \/ command.pc = "started"
    /\ approved' = approved \cup {f}
    /\ UNCHANGED <<flow, flowLock, session, poll, command, ui, flows, consumed, signedOut>>

AuthNext ==
    \/ \E p \in Polls :
          \/ PollTick(p) \/ PollLock(p)
          \/ PollNothing(p, "out") \/ PollNothing(p, "error")
          \/ PollGrant(p) \/ PollStore(p) \/ PollClear(p) \/ PollReturn(p)
    \/ StartAuth \/ StartOver \/ StartInstall \/ StartReturn
    \/ SignOut \/ SignOutFlow \/ SignOutSession \/ SignOutReturn
    \/ \E f \in Flow : Approve(f)

AuthSpec == AuthInit /\ [][AuthNext]_authVars

\* The interval keeps ticking and every poll goes on; the auth_flow mutex is FIFO, so
\* that a poll that waits to clear the flow gets it, and errors of the relay are
\* transient. (That one of the polls does is all that is assumed of either.)
AuthFairness ==
    /\ \A p \in Polls : WF_authVars(\/ PollTick(p) \/ PollLock(p) \/ PollNothing(p, "out")
                                   \/ PollStore(p) \/ PollReturn(p))
    /\ SF_authVars(\E p \in Polls : PollGrant(p))
    /\ SF_authVars(\E p \in Polls : PollClear(p))
-----------------------------------------------------------------------------
(* Properties *)

\* Once sign_out has cleared the session, no authorization started before it can
\* bring a session back: the poll that receives a grant stores it before it lets go
\* of auth_flow, which sign_out empties first (the order of the two locks).
SignedOutStaysOut == session # 0 => session \notin signedOut

\* A user who approves the code on display is signed in, unless the code is taken
\* off the display or the flow is dropped from auth_flow (by the last step of an
\* earlier poll, which does not look at what it clears).
ApprovalSignsIn ==
    \A f \in Flow :
       (ui.url = f /\ f \in approved) ~> (ui.auth \/ ui.url # f \/ flow # f)
=============================================================================
