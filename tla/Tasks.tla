-------------------------------- MODULE Tasks --------------------------------
(***************************************************************************)
(* The coroutines of the cells and what they send to each other: the Lua   *)
(* side of every cell (cell.lua: sessions, tasks, events, the dispatch of  *)
(* each port) and of the system cell (system.lua: launch, kill, timeout    *)
(* and the tick).                                                          *)
(*                                                                         *)
(* A cell dispatches one message at a time and runs one coroutine at a     *)
(* time, but a coroutine of another cell runs between any two of its       *)
(* calls: each send is a step of its own.  What a coroutine computes is a  *)
(* free choice among the calls that Does allows.  Messages are told apart  *)
(* by their port, source, session and command; what they carry besides is  *)
(* left out.  A cell's queue is the one MessageQueue implements, and       *)
(* whether it accepts a message and when its last ones are dispatched is   *)
(* what CellLifecycle says of close and trash_msg.                         *)
(***************************************************************************)
EXTENDS Naturals, Sequences, FiniteSets, FiniteSetsExt, SequencesExt

CONSTANTS Cell,        \* the cells there may ever be
          system,      \* the system cell
          Nil,         \* Lua's nil where a cell is expected
          Programs,    \* what the cells may do, in each case that is checked
          Duration     \* the ticks that cell.sleep and cell.timeout are given

Users == Cell \ {system}

\* The calls of cell.lua; and what no call can carry or no task can end with: a value
\* that data_pack refuses, or a yield that suspend does not know.
Calls == {"call", "post", "sleep", "timeout", "fork", "wait", "launch", "kill", "exit",
          "garble"}

\* A program: the cells that system.lua launches while it loads, what the code of
\* each cell may do, whom it may call and kill, and the bounds of the model on its
\* sessions and on the messages in a queue that await no answer.
ASSUME CodeAssumption ==
  /\ IsFiniteSet(Cell) /\ system \in Cell /\ Nil \notin Cell \union Nat
  /\ Programs \subseteq [boot : SUBSET Users, does : [Users -> SUBSET Calls],
                        calls : [Users -> SUBSET Cell],
                        kills : [Users -> SUBSET Users],
                        sessions : [Users -> Nat], queue : Nat]
  /\ Duration \subseteq Nat

VARIABLES program,  \* the program that runs
          status,   \* "unborn", "open", "closed" (killed) or "dead"
          mailbox,  \* the messages in a cell's queue
          session,  \* the last session a cell has given out
          tasks,    \* its suspended coroutines: task_coroutine, _session, _source
          event_q,  \* the events woken and not yet delivered (event_q1, event_q2)
          phase,    \* where a cell is in the dispatch of a message
          co,       \* the coroutine it runs
          todo,     \* the tasks that its exit still has to answer
          timer,    \* the system cell's timer: <<event, ticks left>>
          faults,   \* history: an error ended the "exit" of a cell, or a "dispatch"
                    \* before its events; a coroutine ran too "late", after its exit
          unsent    \* history: the sources, with their sessions, of coroutines whose
                    \* answer could not be sent

vars == <<program, status, mailbox, session, tasks, event_q, phase, co, todo, timer, faults,
          unsent>>

\* A message.  The ports are 0 to 4 in the code; 5, exit, is never sent.
Msg(port, source, s, cmd, arg) ==
  [port |-> port, source |-> source, session |-> s, cmd |-> cmd, arg |-> arg]

Response(s)        == Msg("response", Nil, s, "none", Nil)
Command(c, s, cmd, arg) == Msg("command", c, s, cmd, arg)
LaunchMsg(c, s)    == Msg("launch", c, s, "code", Nil)
Message(cmd, arg)  == Msg("message", Nil, Nil, cmd, arg)
TickMsg            == Msg("tick", Nil, Nil, "none", Nil)

\* A coroutine: whom it answers, from where it was resumed, and what it is to
\* do; "code" is what a user's code chooses, or the end of a system's command.
Co(source, s, origin, cmd, arg) ==
  [source |-> source, session |-> s, origin |-> origin, cmd |-> cmd, arg |-> arg]

NoCo == Co(Nil, Nil, "dispatch", "none", Nil)

\* A suspended coroutine: the event that resumes it and whom it answers.  History:
\* whether it waits for an "answer" (from cell to), for a "wakeup", or for its "end".
Task(e, source, s, why, to) ==
  [event |-> e, source |-> source, session |-> s, why |-> why, to |-> to]

Boot == program.boot
Does == program.does
Callees == program.calls
Victims == program.kills
MaxSession == program.sessions
MaxQueue == program.queue

Init ==
  /\ program \in Programs
  /\ status = [c \in Cell |-> IF c \in Boot \union {system} THEN "open" ELSE "unborn"]
  /\ mailbox = [c \in Cell |-> IF c \in Boot THEN <<LaunchMsg(Nil, Nil)>> ELSE <<>>]
  /\ session = [c \in Cell |-> 0]
  /\ tasks = [c \in Cell |-> {}]
  /\ event_q = [c \in Cell |-> <<>>]
  /\ phase = [c \in Cell |-> "idle"]
  /\ co = [c \in Cell |-> NoCo]
  /\ todo = [c \in Cell |-> {}]
  /\ timer = {}
  /\ faults = [c \in Cell |-> {}]
  /\ unsent = {}

Accepts(x) == status[x] = "open"
Post(x, m) == mailbox' = [mailbox EXCEPT ![x] = Append(@, m)]
InPhase(c, p) == phase[c] = p
Enter(c, p) == phase' = [phase EXCEPT ![c] = p]
Fault(c, what) == faults' = [faults EXCEPT ![c] = @ \union {what}]

-----------------------------------------------------------------------------
(* The dispatcher: c.dispatch and the ports                                *)

Receives(c, port) ==
  /\ InPhase(c, "idle")
  /\ mailbox[c] # <<>>
  /\ Head(mailbox[c]).port = port
  /\ mailbox' = [mailbox EXCEPT ![c] = Tail(@)]

\* coroutine.resume, and suspend once it yields, returns or fails.
Run(c, k) == co' = [co EXCEPT ![c] = k] /\ Enter(c, "run")

\* The coroutine of c has yielded or ended without an error in suspend.
\* Mutant: a dispatch ends without deliver_event.
SuspendedIdle(c) ==
  /\ Enter(c, IF co[c].origin = "dispatch" THEN "idle" ELSE co[c].origin)
  /\ co' = [co EXCEPT ![c] = NoCo]

Suspended(c) ==
  /\ Enter(c, IF co[c].origin = "dispatch" THEN "deliver" ELSE co[c].origin)
  /\ co' = [co EXCEPT ![c] = NoCo]

\* An error in suspend: deliver_event catches it with pcall, but in a port's
\* dispatch it also skips deliver_event.
Failed(c) ==
  /\ IF co[c].origin = "dispatch"
       THEN Enter(c, "idle") /\ Fault(c, "dispatch")
       ELSE Enter(c, co[c].origin) /\ UNCHANGED faults
  /\ co' = [co EXCEPT ![c] = NoCo]

\* resume_co.  Mutant: the task's entries are not cleared.
ResumeKept(c, e, origin) ==
  \E k \in tasks[c] :
    /\ k.event = e
    /\ Run(c, Co(k.source, k.session, origin, "code", Nil))
    /\ UNCHANGED tasks

Resume(c, e, origin) ==
  \E k \in tasks[c] :
    /\ k.event = e
    /\ Run(c, Co(k.source, k.session, origin, "code", Nil))
    /\ tasks' = [tasks EXCEPT ![c] = @ \ {k}]

Known(c, e) == \E k \in tasks[c] : k.event = e

\* Port 1.
DispatchResponse(c) ==
  /\ Receives(c, "response")
  /\ Resume(c, Head(mailbox[c]).session, "dispatch")
  /\ UNCHANGED <<program, status, session, event_q, todo, timer, faults, unsent>>

UnknownResponse(c) ==
  /\ Receives(c, "response")
  /\ ~Known(c, Head(mailbox[c]).session)
  /\ UNCHANGED <<program, status, session, tasks, event_q, phase, co, todo, timer, faults,
                 unsent>>

\* Ports 2 and 4: the coroutine answers the source.
DispatchCommand(c) ==
  /\ Receives(c, "command") \/ Receives(c, "launch")
  /\ LET m == Head(mailbox[c])
     IN Run(c, Co(m.source, m.session, "dispatch", m.cmd, m.arg))
  /\ UNCHANGED <<program, status, session, tasks, event_q, todo, timer, faults, unsent>>

\* Port 3: there is nobody to answer.  The handler calls suspend with a global
\* source, which is nil, and with the module's own session counter.
DispatchMessage(c) ==
  /\ Receives(c, "message")
  /\ LET m == Head(mailbox[c])
     IN Run(c, Co(Nil, session[c], "dispatch", m.cmd, m.arg))
  /\ UNCHANGED <<program, status, session, tasks, event_q, todo, timer, faults, unsent>>

\* Port 0, in the system cell: one tick less, and those with none left wake up
\* in the order in which they came.
Due == {p[1] : p \in {q \in timer : q[2] = 1}}

\* Mutants: the queue that is woken is not removed; the others are.
LaterKept == {<<p[1], p[2] - 1>> : p \in timer}

LaterDropped == {}

Later == {<<p[1], p[2] - 1>> : p \in {q \in timer : q[2] > 1}}

\* The ascending sequence of a finite set of sessions.
Ascending(S) == {q \in SetToSeqs(S) : \A i \in DOMAIN q : \A j \in 1 .. i - 1 : q[j] < q[i]}

DispatchTick ==
  /\ Receives(system, "tick")
  /\ \E q \in Ascending(Due) : event_q' = [event_q EXCEPT ![system] = @ \o q]
  /\ timer' = Later
  /\ Enter(system, "deliver")
  /\ UNCHANGED <<program, status, session, tasks, co, todo, faults, unsent>>

\* deliver_event, after a dispatch ("deliver") or after the exit ("last").
Deliver(c) ==
  /\ phase[c] \in {"deliver", "last"}
  /\ event_q[c] # <<>>
  /\ event_q' = [event_q EXCEPT ![c] = Tail(@)]
  /\ IF Known(c, Head(event_q[c]))
       THEN /\ Resume(c, Head(event_q[c]), phase[c])
            /\ IF InPhase(c, "last") THEN Fault(c, "late") ELSE UNCHANGED faults
       ELSE UNCHANGED <<tasks, phase, co, faults>>
  /\ UNCHANGED <<program, status, mailbox, session, todo, timer, unsent>>

Delivered(c) ==
  /\ phase[c] \in {"deliver", "last"}
  /\ event_q[c] = <<>>
  /\ IF InPhase(c, "last")
       THEN status' = [status EXCEPT ![c] = "dead"] /\ Enter(c, "dead")
       ELSE Enter(c, "idle") /\ UNCHANGED status
  /\ UNCHANGED <<program, mailbox, session, tasks, event_q, co, todo, timer, faults,
                 unsent>>

-----------------------------------------------------------------------------
(* Port 5: the exit of a killed cell, after the last message of its queue  *)

\* Mutant: only once every coroutine of the cell has ended.
BeginExitIdle(c) ==
  /\ InPhase(c, "idle")
  /\ status[c] = "closed"
  /\ mailbox[c] = <<>> /\ tasks[c] = {}
  /\ todo' = [todo EXCEPT ![c] = {}]
  /\ Enter(c, "exit")
  /\ UNCHANGED <<program, status, mailbox, session, tasks, event_q, co, timer, faults,
                 unsent>>

BeginExit(c) ==
  /\ InPhase(c, "idle")
  /\ status[c] = "closed"
  /\ mailbox[c] = <<>>
  /\ todo' = [todo EXCEPT ![c] = {k \in tasks[c] : k.session # Nil}]
  /\ Enter(c, "exit")
  /\ UNCHANGED <<program, status, mailbox, session, tasks, event_q, co, timer, faults,
                 unsent>>

\* The next task in Lua's order of task_session; its source is told that the
\* cell is dead.  Mutant: sources are not told.
TellNobody(c, k) ==
  /\ InPhase(c, "exit")
  /\ k \in todo[c]
  /\ todo' = [todo EXCEPT ![c] = @ \ {k}]
  /\ UNCHANGED <<program, status, mailbox, session, tasks, event_q, phase, co, timer, faults,
                 unsent>>

TellSource(c, k) ==
  /\ InPhase(c, "exit")
  /\ k \in todo[c]
  /\ k.source = c \/ (k.source # Nil /\ Accepts(k.source))
  /\ todo' = [todo EXCEPT ![c] = @ \ {k}]
  /\ IF k.source = c THEN UNCHANGED mailbox ELSE Post(k.source, Response(k.session))
  /\ UNCHANGED <<program, status, session, tasks, event_q, phase, co, timer, faults,
                 unsent>>

\* c.send raises an error for a source that is closed, or nil: the loop ends,
\* deliver_event is skipped, and the Lua state is closed.
AbortExit(c, k) ==
  /\ InPhase(c, "exit")
  /\ k \in todo[c]
  /\ k.source # c
  /\ k.source # Nil => ~Accepts(k.source)
  /\ todo' = [todo EXCEPT ![c] = {}]
  /\ status' = [status EXCEPT ![c] = "dead"]
  /\ Fault(c, "exit")
  /\ Enter(c, "dead")
  /\ UNCHANGED <<program, mailbox, session, tasks, event_q, co, timer, unsent>>

EndExit(c) ==
  /\ InPhase(c, "exit")
  /\ todo[c] = {}
  /\ Enter(c, "last")
  /\ UNCHANGED <<program, status, mailbox, session, tasks, event_q, co, todo, timer, faults,
                 unsent>>

-----------------------------------------------------------------------------
(* What the coroutine of a cell may do                                     *)

Running(c) == InPhase(c, "run")
Coding(c, what) == Running(c) /\ c \in Users /\ what \in Does[c]
NewSession(c) == session[c] < MaxSession[c] /\ session' = [session EXCEPT ![c] = @ + 1]
Fresh(c) == session[c] + 1

\* new_task, as suspend calls it when the coroutine of c has yielded "WAIT".
Yield(c, why, to) ==
  /\ tasks' = [tasks EXCEPT ![c] =
                 @ \union {Task(Fresh(c), co[c].source, co[c].session, why, to)}]
  /\ Suspended(c)

\* The coroutine of c may end here: a user's anywhere, the system cell's when
\* its command has been carried out, cannot be, or changes nothing (socket, echo).
MayEnd(c) == c = system => \/ co[c].cmd \in {"none", "code", "launch"}
                           \/ co[c].cmd = "timeout" /\ co[c].arg = 0

\* What the coroutine of c ends with may be nothing that suspend can pass on: a
\* result or an error that data_pack refuses, a yield of neither "RETURN", "EXIT" nor
\* "WAIT", a command that is no string and so not even an "Unknown command".  The
\* system cell's own results can be packed; the commands it gets are the callers'.
MayGarble(c) == IF c = system THEN co[c].cmd = "none" ELSE "garble" \in Does[c]

\* The claim to an answer that a coroutine, or a task, is to satisfy.
SourceClaims(k) == IF k.source = Nil THEN {} ELSE {<<k.source, k.session>>}

\* The coroutine returns or fails, and suspend answers its source either way, or
\* raises an error: the source is closed, or the answer cannot be sent.
\* Mutant: a source whose task has failed is not answered.
FinishSilently(c) ==
  /\ Running(c) /\ MayEnd(c)
  /\ Suspended(c)
  /\ UNCHANGED <<program, status, mailbox, session, tasks, event_q, todo, timer, faults,
                 unsent>>

Finish(c) ==
  /\ Running(c) /\ MayEnd(c)
  /\ LET s == co[c].source IN
       \/ s = Nil /\ Suspended(c) /\ UNCHANGED <<mailbox, faults, unsent>>
       \/ /\ s # Nil /\ Accepts(s)
          /\ Suspended(c) /\ Post(s, Response(co[c].session)) /\ UNCHANGED <<faults, unsent>>
       \/ s # Nil /\ ~Accepts(s) /\ Failed(c) /\ UNCHANGED <<mailbox, unsent>>
       \/ /\ MayGarble(c) /\ Failed(c)
          /\ unsent' = unsent \union SourceClaims(co[c])
          /\ UNCHANGED mailbox
  /\ UNCHANGED <<program, status, session, tasks, event_q, todo, timer>>

\* cell.call, which cell.cmd calls as well.
CallCell(c, x, cmd, arg) ==
  /\ NewSession(c)
  /\ IF Accepts(x)
       THEN Post(x, Command(c, Fresh(c), cmd, arg)) /\ Yield(c, "answer", x)
       ELSE UNCHANGED <<mailbox, tasks, phase, co>>   \* an error in the coroutine
  /\ UNCHANGED <<program, status, event_q, todo, timer, faults, unsent>>

\* What a cell's code is asked to do: nothing more of the system cell than the
\* commands below, which have calls of their own.
Asking(x) == IF x = system THEN "none" ELSE "code"

Call(c) == Coding(c, "call") /\ \E x \in Callees[c] :
             status[x] # "unborn" /\ CallCell(c, x, Asking(x), Nil)
Sleep(c) == Coding(c, "sleep") /\ \E n \in Duration : CallCell(c, system, "timeout", n)
CallLaunch(c) == Coding(c, "launch") /\ CallCell(c, system, "launch", Nil)
CallKill(c) == Coding(c, "kill") /\ \E x \in Victims[c] :
                 status[x] # "unborn" /\ CallCell(c, system, "kill", x)

\* cell.call of what cannot be packed: an error in the coroutine.
CallGarbled(c) ==
  /\ Coding(c, "garble")
  /\ NewSession(c)
  /\ UNCHANGED <<program, status, mailbox, tasks, event_q, phase, co, todo, timer, faults,
                 unsent>>

\* cell.send.
Send(c) ==
  /\ Coding(c, "post")
  /\ \E x \in Callees[c] : /\ Accepts(x) /\ Len(mailbox[x]) < MaxQueue
                         /\ Post(x, Message(Asking(x), Nil))
  /\ UNCHANGED <<program, status, session, tasks, event_q, phase, co, todo, timer, faults,
                 unsent>>

\* cell.timeout.  Mutant: the coroutine is not put down as a task.
TimeoutUntracked(c) ==
  /\ Coding(c, "timeout")
  /\ NewSession(c)
  /\ Accepts(system)
  /\ \E n \in Duration : Post(system, Command(c, Fresh(c), "timeout", n))
  /\ UNCHANGED <<program, status, tasks, event_q, phase, co, todo, timer, faults, unsent>>

Timeout(c) ==
  /\ Coding(c, "timeout")
  /\ NewSession(c)
  /\ Accepts(system)
  /\ \E n \in Duration : Post(system, Command(c, Fresh(c), "timeout", n))
  /\ tasks' = [tasks EXCEPT ![c] = @ \union {Task(Fresh(c), Nil, Nil, "answer", system)}]
  /\ UNCHANGED <<program, status, event_q, phase, co, todo, timer, faults, unsent>>

\* cell.fork.
Fork(c) ==
  /\ Coding(c, "fork")
  /\ NewSession(c)
  /\ tasks' = [tasks EXCEPT ![c] = @ \union {Task(Fresh(c), Nil, Nil, "wakeup", Nil)}]
  /\ event_q' = [event_q EXCEPT ![c] = Append(@, Fresh(c))]
  /\ UNCHANGED <<program, status, mailbox, phase, co, todo, timer, faults, unsent>>

\* cell.wait for an event of its own, which another coroutine wakes once.
Wait(c) ==
  /\ Coding(c, "wait")
  /\ NewSession(c)
  /\ Yield(c, "wakeup", Nil)
  /\ UNCHANGED <<program, status, mailbox, event_q, todo, timer, faults, unsent>>

Wakeup(c) ==
  /\ Coding(c, "wait")
  /\ \E k \in tasks[c] :
       /\ k.why = "wakeup" /\ k.event \notin ToSet(event_q[c])
       /\ event_q' = [event_q EXCEPT ![c] = Append(@, k.event)]
  /\ UNCHANGED <<program, status, mailbox, session, tasks, phase, co, todo, timer, faults,
                 unsent>>

\* cell.exit: a message to the system cell, and a wait that nobody ends.
Exit(c) ==
  /\ Coding(c, "exit")
  /\ Accepts(system)
  /\ NewSession(c)
  /\ Post(system, Message("kill", c))
  /\ Yield(c, "end", Nil)
  /\ UNCHANGED <<program, status, event_q, todo, timer, faults, unsent>>

-----------------------------------------------------------------------------
(* The commands of the system cell                                         *)

Commanded(cmd) == Running(system) /\ co[system].cmd = cmd

\* command.timeout.
CommandTimeout ==
  /\ Commanded("timeout")
  /\ co[system].arg > 0
  /\ session' = [session EXCEPT ![system] = @ + 1]
  /\ timer' = timer \union {<<Fresh(system), co[system].arg>>}
  /\ Yield(system, "wakeup", Nil)
  /\ UNCHANGED <<program, status, mailbox, event_q, todo, faults, unsent>>

\* command.kill and message.kill: cell_close.
CommandKill ==
  /\ Commanded("kill")
  /\ LET x == co[system].arg
     IN status' = [status EXCEPT ![x] = IF @ = "open" THEN "closed" ELSE @]
  /\ co' = [co EXCEPT ![system].cmd = "code"]
  /\ UNCHANGED <<program, mailbox, session, tasks, event_q, phase, todo, timer, faults,
                 unsent>>

\* command.launch: the new cell is told to run its main, and answers.  A cell
\* that cannot be launched ends the command with an error (Finish).
CommandLaunch(n) ==
  /\ Commanded("launch")
  /\ status[n] = "unborn"
  /\ status' = [status EXCEPT ![n] = "open"]
  /\ session' = [session EXCEPT ![system] = @ + 1]
  /\ Post(n, LaunchMsg(system, Fresh(system)))
  /\ Yield(system, "answer", n)
  /\ UNCHANGED <<program, event_q, todo, timer, faults, unsent>>

\* send_tick, by the timer thread.
Tick ==
  /\ Accepts(system)
  /\ Len(mailbox[system]) < MaxQueue
  /\ Post(system, TickMsg)
  /\ UNCHANGED <<program, status, session, tasks, event_q, phase, co, todo, timer, faults,
                 unsent>>

-----------------------------------------------------------------------------

Dispatch(c) == \/ DispatchResponse(c) \/ UnknownResponse(c)
               \/ DispatchCommand(c) \/ DispatchMessage(c)
               \/ Deliver(c) \/ Delivered(c)
               \/ BeginExit(c) \/ EndExit(c)
               \/ \E k \in todo[c] : TellSource(c, k) \/ AbortExit(c, k)

Code(c) == \/ Call(c) \/ CallGarbled(c) \/ Sleep(c) \/ CallLaunch(c) \/ CallKill(c)
           \/ Send(c) \/ Timeout(c) \/ Fork(c) \/ Wait(c) \/ Wakeup(c) \/ Exit(c)

Commands == \/ CommandTimeout \/ CommandKill
            \/ \E n \in Users : CommandLaunch(n)

Next == \/ \E c \in Cell : Dispatch(c) \/ Finish(c) \/ Code(c)
        \/ DispatchTick \/ Commands \/ Tick

Spec == Init /\ [][Next]_vars

\* The workers dispatch every cell again and again, coroutines yield or end, and
\* the clock ticks.  (MaxQueue bounds the model's ticks, not the code's, hence
\* strong fairness.)  Nothing makes a coroutine call, send or wait.
Fairness ==
  /\ \A c \in Cell : WF_vars(Dispatch(c)) /\ WF_vars(Finish(c))
  /\ WF_vars(DispatchTick) /\ WF_vars(Commands) /\ SF_vars(Tick)

FairSpec == Spec /\ Fairness

-----------------------------------------------------------------------------
(* Properties                                                              *)

Sources == Cell \union {Nil}
Sessions == Nat \union {Nil}
Cmds == {"none", "code", "timeout", "kill", "launch"}
Args == Sources \union Nat
Durable(r) == r.cmd = "timeout" => r.arg \in Nat

Mail == {m \in [port : {"response", "command", "launch", "message", "tick"},
                source : Sources, session : Sessions, cmd : Cmds, arg : Args] : Durable(m)}
Coroutines == {k \in [source : Sources, session : Sessions,
                      origin : {"dispatch", "deliver", "last"},
                      cmd : Cmds, arg : Args] : Durable(k)}
Waiting == [event : Nat, source : Sources, session : Sessions,
               why : {"answer", "wakeup", "end"}, to : Sources]

TypeOK ==
  /\ program \in Programs
  /\ status \in [Cell -> {"unborn", "open", "closed", "dead"}]
  /\ mailbox \in [Cell -> Seq(Mail)]
  /\ session \in [Cell -> Nat]
  /\ tasks \in [Cell -> SUBSET Waiting]
  /\ \A c \in Cell : IsFiniteSet(tasks[c]) /\ \A k \in tasks[c] : k.event \in 1 .. session[c]
  /\ event_q \in [Cell -> Seq(Nat)]
  /\ \A c \in Cell : ToSet(event_q[c]) \subseteq 1 .. session[c]
  /\ phase \in [Cell -> {"idle", "run", "deliver", "exit", "last", "dead"}]
  /\ co \in [Cell -> Coroutines]
  /\ \A c \in Cell : co[c] # NoCo => InPhase(c, "run")
  /\ todo \in [Cell -> SUBSET Waiting]
  /\ \A c \in Cell : todo[c] \subseteq tasks[c]
  /\ timer \subseteq (1 .. session[system]) \X (Nat \ {0})
  /\ faults \in [Cell -> SUBSET {"exit", "dispatch", "late"}]
  /\ unsent \subseteq Cell \X Nat

\* The suspended coroutines of x that still have to answer their source.
Owing(x) == CASE phase[x] = "exit" -> todo[x]
              [] phase[x] \in {"last", "dead"} \/ co[x].origin = "last" -> {}
              [] OTHER -> tasks[x]

\* Where an answer to session s of c is, or is to come from: a request not yet
\* dispatched, the coroutine that serves it, or the response.
Requests(c, s) == {p \in UNION {{x} \X DOMAIN mailbox[x] : x \in Cell} :
                    LET m == mailbox[p[1]][p[2]]
                    IN m.port \in {"command", "launch"} /\ m.source = c /\ m.session = s}
Serving(c, s) == {x \in Cell : co[x].source = c /\ co[x].session = s}
Suspending(c, s) == {p \in UNION {{x} \X Owing(x) : x \in Cell} :
                      p[2].source = c /\ p[2].session = s}
Responses(c, s) == {i \in DOMAIN mailbox[c] :
                     mailbox[c][i].port = "response" /\ mailbox[c][i].session = s}

Answers(c, s) == Cardinality(Requests(c, s)) + Cardinality(Serving(c, s))
                 + Cardinality(Suspending(c, s)) + Cardinality(Responses(c, s))

Awaiting(c) == {k.event : k \in {j \in tasks[c] : j.why = "answer"}}

\* A session is answered once: its answer is in one place, whatever the callers
\* and the callees do and whoever is killed, and it finds a coroutine waiting;
\* unless a cell's exit has answered for a coroutine that had been woken, and then
\* runs, and answers again.
AnsweredOnce ==
  (\A x \in Cell : "late" \notin faults[x]) =>
    \A c \in Cell : \A s \in 1 .. session[c] :
      LET n == Answers(c, s)
      IN n <= 1 /\ (n = 1 /\ status[c] # "dead" => s \in Awaiting(c))

\* A cell that waits for its next message has delivered its events, unless an error
\* in a dispatch has made it skip them: a source that died before its answer, or an
\* answer or a yield that suspend cannot pass on.
EventsDelivered ==
  \A c \in Cell : InPhase(c, "idle") /\ event_q[c] # <<>> => "dispatch" \in faults[c]

\* A test kills a cell and goes on calling it: each call ends, with an error
\* when the cell is dead.  So an open cell's call has an answer to come.
NoCallerForgotten ==
  \A c \in Cell : status[c] = "open" =>
    \A s \in Awaiting(c) : Answers(c, s) >= 1

\* What holds of it: a caller is forgotten only by a cell whose exit was ended by an
\* error, or when it was its own answer that could not be sent; nobody else's error,
\* and no kill, sleep, launch or late answer, makes a cell lose the claim to one.
ForgottenOnlyByError ==
  \A c \in Cell : status[c] = "open" =>
    \A k \in tasks[c] : k.why = "answer" /\ Answers(c, k.event) = 0 =>
      "exit" \in faults[k.to] \/ <<c, k.event>> \in unsent

\* cell.lua raises "Unknown response" for a response that no coroutine waits for.
NoUnknownResponse ==
  \A c \in Cell : InPhase(c, "idle") /\ mailbox[c] # <<>> =>
    (Head(mailbox[c]).port = "response" => Known(c, Head(mailbox[c]).session))

\* No sleeper is lost: each suspended timeout of the system cell is in its timer,
\* or woken and not yet delivered, and not both.
SleepersKept ==
  LET ticking == {p[1] : p \in timer}
      woken == ToSet(event_q[system])
  IN /\ {k.event : k \in {j \in tasks[system] : j.why = "wakeup"}} = ticking \union woken
     /\ ticking \intersect woken = {}

-----------------------------------------------------------------------------
(* The inductive invariant                                                 *)

\* What is left of a killed cell after its last message.
Ending(c) == phase[c] \in {"exit", "last", "dead"} \/ co[c].origin = "last"

Stages ==
  \A c \in Cell :
    /\ Ending(c) => status[c] \in {"closed", "dead"} /\ mailbox[c] = <<>>
    /\ status[c] = "unborn" => phase[c] = "idle" /\ mailbox[c] = <<>> /\ tasks[c] = {}
    /\ phase[c] # "exit" => todo[c] = {}
    /\ co[c].origin = "last" => "late" \in faults[c]

\* An event resumes one coroutine, and is woken only for one that waits for it to be.
EventsDistinct ==
  /\ \A c \in Cell : \A j, k \in tasks[c] : j.event = k.event => j = k
  /\ \A c \in Cell : \A k \in tasks[c] : k.event \in ToSet(event_q[c]) => k.why = "wakeup"
  /\ IsInjective(event_q[system])
  /\ \A p, q \in timer : p[1] = q[1] => p = q

\* A claim <<c, s>> is to an answer for session s of c.  A message in the queue of x
\* carries at most one, a request's or the answer; a coroutine has its source's.
MessageClaims(x, m) ==
  IF m.port = "response" THEN {<<x, m.session>>}
  ELSE IF m.port \in {"command", "launch"} /\ m.source # Nil THEN {<<m.source, m.session>>}
  ELSE {}

MailClaims(x, q) == UNION {MessageClaims(x, q[i]) : i \in DOMAIN q}
TaskClaims(S) == UNION {SourceClaims(k) : k \in S}

\* A claim is to a session given out, and what waits for it waits for an answer.
Proper(t) == /\ t[1] \in Cell /\ t[2] \in 1 .. session[t[1]]
             /\ \A k \in tasks[t[1]] : k.event = t[2] => k.why = "answer"
Addressed ==
  \A x \in Cell : \A t \in MailClaims(x, mailbox[x]) \union SourceClaims(co[x])
                        \union TaskClaims(tasks[x]) : Proper(t)

\* The claims, each with the place it is in.
Claims == UNION {({"mail"} \X {x} \X MailClaims(x, mailbox[x]))
                 \union ({"co"} \X {x} \X SourceClaims(co[x]))
                 \union ({"task"} \X {x} \X TaskClaims(Owing(x))) : x \in Cell}

\* A claim is in one place, once, and its session awaited.
InOnePlace(claims) == \A p, q \in claims : p[3] = q[3] => p = q
AllAwaited(claims) == \A p \in claims : p[3][2] \in Awaiting(p[3][1])

MailDistinct(x, q) ==
  \A i, j \in DOMAIN q :
    i # j => MessageClaims(x, q[i]) \intersect MessageClaims(x, q[j]) = {}
TasksDistinct(S) == \A j, k \in S : j # k => SourceClaims(j) \intersect SourceClaims(k) = {}

Alone == /\ LET claims == Claims IN InOnePlace(claims) /\ AllAwaited(claims)
         /\ \A x \in Cell : MailDistinct(x, mailbox[x]) /\ TasksDistinct(Owing(x))

NeverLate == \A x \in Cell : "late" \notin faults[x]

\* The claim of an open cell's call is with the cell it called, or answered, unless
\* that cell's exit was ended by an error or the answer could not be sent.
Pending(c, k) ==
  LET t == <<c, k.event>>
  IN \/ t \in MailClaims(k.to, mailbox[k.to])
     \/ t \in SourceClaims(co[k.to]) /\ co[k.to].origin # "last"
     \/ t \in TaskClaims(Owing(k.to))
     \/ Response(k.event) \in ToSet(mailbox[c])

Answerable ==
  \A c \in Cell : status[c] = "open" =>
    \A k \in tasks[c] : k.why = "answer" =>
      /\ k.to \in Cell
      /\ "exit" \in faults[k.to] \/ <<c, k.event>> \in unsent \/ Pending(c, k)

IInv == /\ TypeOK /\ Stages /\ EventsDistinct /\ SleepersKept /\ EventsDelivered
        /\ Addressed /\ (NeverLate => Alone)
        /\ Answerable

-----------------------------------------------------------------------------

\* A sleep ends, unless the sleeper is killed: once the system cell is asked for a
\* timeout, the coroutine that waits for it is resumed.
Asked(c, e) == \E m \in ToSet(mailbox[system]) :
                 m.source = c /\ m.session = e /\ m.cmd = "timeout"
SleepEnds == \A c \in Users : \A e \in UNION {1 .. p.sessions[c] : p \in Programs} :
               Asked(c, e) ~> (status[c] # "open" \/ ~Known(c, e))

\* A killed cell gets its last messages, tells its callers and dies.
KilledDies == \A c \in Users : status[c] = "closed" ~> status[c] = "dead"
=============================================================================
