----------------------------- MODULE ManagedHost -----------------------------
(* One host process and the program behind it: memesh-host-claude, whose     *)
(* program is the client at its standard input, memesh-host-codex and        *)
(* memesh-host-acp, which start their program as a child                     *)
(* (src/src/host-runtime/claude.ts, codex.ts and acp.ts with                 *)
(* src/src/host-adapters/). How a host starts, registers, loses and renews   *)
(* its connection, hands deliveries on and ends, in any order of those.      *)
(*                                                                           *)
(* The connection is what the runtimes see of router-client.ts, whose frames *)
(* and timers are RouterHost: it hands over one delivery at a time, renews a *)
(* lost connection under a new generation and does not tell the runtime. An  *)
(* "activated" host has read the answer to its registration and the frames   *)
(* that came in the same chunk; only promise callbacks run until it goes on. *)
EXTENDS Naturals, Sequences

CONSTANTS
    Messages,  \* the deliveries the router may push
    MaxGen,    \* bound: registrations of this session
    MaxTail,   \* bound: frames read and waiting for their turn
    None       \* no delivery under way

ASSUME NoneAssumption == None \notin [msg : Messages, gen : Nat, at : STRING]
ASSUME BoundsAssumption == MaxGen \in Nat /\ MaxTail \in Nat

VARIABLES
    kind,      \* which of the three hosts this is
    start,     \* how far the start of the host has come
    ending,    \* shutdownTask, closeTask or closePromise has been set
    child,     \* the program behind the host: "up", "gone" or, once the host
               \* knows that it is gone, "ended"
    told,      \* it was sent SIGTERM
    conn,      \* the connection: none, connecting, up, retry, closed
    gen,       \* its currentGeneration
    last,      \* the newest generation the router gave to this session
    ref,       \* routerConnection is set
    adapter,   \* the ACP adapter, idle in the other hosts
    tail,      \* deliveryTail: frames in the order they were read
    active,    \* the delivery the runtime is handing on
    accepted,  \* acceptedDeliveries
    heard,     \* history: the acceptances written to the router
    refused,   \* history: deliveries refused for their generation
    first,     \* history: the generation of the first registration
    orphan     \* history: the program failed while the host was registering

program == <<child, told>>
link == <<conn, gen, last, tail>>
outcome == <<accepted, heard>>
history == <<refused, first, orphan>>
vars == <<kind, start, ending, child, told, conn, gen, last, ref, adapter,
          tail, active, accepted, heard, refused, first, orphan>>

Frames == [msg : Messages, gen : 1..MaxGen]
HandOvers == [msg : Messages, gen : 1..MaxGen, at : {"sent", "answered"}]
Refusals == [gen : 1..MaxGen, at : {"activated", "running"}]
Adapters == [gen : 0..MaxGen \cup {1}, terminal : BOOLEAN, closing : BOOLEAN,
             unregister : BOOLEAN, started : BOOLEAN]
IdleAdapter == [gen |-> 1, terminal |-> FALSE, closing |-> FALSE,
                unregister |-> FALSE, started |-> FALSE]

Init ==
    /\ kind \in {"claude", "codex", "acp"}
    /\ start = "starting"
    /\ ending = FALSE
    /\ child = "up"
    /\ told = FALSE
    /\ conn = "none"
    /\ gen = 0
    /\ last \in 0..MaxGen
    /\ ref = FALSE
    /\ adapter = IdleAdapter
    /\ tail = <<>>
    /\ active = None
    /\ accepted = {}
    /\ heard = {}
    /\ refused = {}
    /\ first = 0
    /\ orphan = FALSE

(* A timer, a signal or an exit is an event of its own; none comes between   *)
(* the promise callbacks of a registration                                   *)
Event == start # "activated"

-----------------------------------------------------------------------------
(* The connection *)

(* RouterHostConnection.close: what was read and not handed on is discarded  *)
CloseConn ==
    /\ conn' = "closed"
    /\ tail' = <<>>
    /\ UNCHANGED <<gen, last>>

(* Mutant: the reference is cleared before it is used                        *)
ForgetHeld ==
    /\ ref' = FALSE
    /\ UNCHANGED link

(* closeRouterConnection, `await routerConnection?.close()`: a connection    *)
(* that is still being made is in no variable yet                            *)
CloseHeld ==
    /\ ref' = FALSE
    /\ IF ref THEN CloseConn ELSE UNCHANGED link

(* The router's answer, with or without a delivery in the same chunk         *)
NewGeneration(frames) ==
    /\ last < MaxGen
    /\ conn' = "up"
    /\ gen' = last + 1
    /\ last' = last + 1
    /\ tail' = tail \o frames

Activate ==
    /\ start = "registering"
    /\ \E frames \in {<<>>} \cup {<<[msg |-> m, gen |-> last + 1]>> : m \in Messages} :
          NewGeneration(frames)
    /\ start' = "activated"
    /\ first' = last + 1
    /\ UNCHANGED <<kind, ending, program, ref, adapter, active, outcome, refused,
                   orphan>>

(* The socket closes: the router stopped or died                             *)
LinkLost ==
    /\ conn = "up" /\ Event
    /\ conn' = "retry"
    /\ UNCHANGED <<kind, start, ending, program, gen, last, ref, adapter, tail,
                   active, outcome, history>>

(* reconnectLoop, of which the runtime hears nothing                         *)
Reconnect ==
    /\ conn = "retry"
    /\ NewGeneration(<<>>)
    /\ UNCHANGED <<kind, start, ending, program, ref, adapter, active, outcome,
                   history>>

(* session_superseded: another process registered this session               *)
Superseded ==
    /\ conn = "up" /\ Event
    /\ CloseConn
    /\ UNCHANGED <<kind, start, ending, program, ref, adapter, active, outcome,
                   history>>

Push(m) ==
    /\ conn = "up" /\ Event
    /\ Len(tail) < MaxTail
    /\ tail' = Append(tail, [msg |-> m, gen |-> gen])
    /\ UNCHANGED <<kind, start, ending, program, conn, gen, last, ref, adapter,
                   active, outcome, history>>

-----------------------------------------------------------------------------
(* Starting *)

(* The client initialized the channel; the app-server has a thread; the      *)
(* agent has a session                                                       *)
Ready ==
    /\ start = "starting" /\ ~ending /\ child # "ended"
    /\ start' = "registering"
    /\ conn' = "connecting"
    /\ UNCHANGED <<kind, ending, program, gen, last, ref, adapter, tail, active,
                   outcome, history>>

(* What every failure of a start does: close() of claude.ts and codex.ts,    *)
(* adapter.close() or stopChild of AcpClientHostAdapter.connect              *)
GiveUp ==
    /\ start' = "failed"
    /\ ending' = TRUE
    /\ told' = TRUE
    /\ conn' = "none"
    /\ adapter' = [adapter EXCEPT !.closing = TRUE, !.started = TRUE]
    /\ UNCHANGED <<kind, child, gen, last, ref, tail, active, outcome, history>>

(* A deadline passes, the thread or the session is refused                   *)
StartFails == start = "starting" /\ ~ending /\ GiveUp

(* connectRouterHost rejects                                                 *)
RegisterFails == start = "registering" /\ GiveUp

(* Mutant: the phase is not looked at again                                  *)
ContinueBlindly ==
    /\ start = "activated"
    /\ tail = <<>> \/ active # None
    /\ start' = "running"
    /\ ref' = TRUE
    /\ adapter' = [adapter EXCEPT !.gen = gen, !.unregister = TRUE]
    /\ UNCHANGED <<kind, ending, program, link, active, outcome, history>>
(* Mutant: the adapter keeps the generation of its options                   *)
ContinueUnnumbered ==
    /\ start = "activated"
    /\ tail = <<>> \/ active # None
    /\ \/ /\ kind = "claude" /\ ending
          /\ start' = "failed"
          /\ CloseConn
          /\ UNCHANGED <<ref, adapter>>
       \/ /\ ~(kind = "claude" /\ ending)
          /\ start' = "running"
          /\ ref' = TRUE
          /\ adapter' = [adapter EXCEPT !.unregister = TRUE]
          /\ UNCHANGED link
    /\ UNCHANGED <<kind, ending, program, active, outcome, history>>

(* connectRouterHost resolves, after the first frame of the chunk has been   *)
(* handed on. Only claude.ts asks whether the session ended meanwhile.       *)
Continue ==
    /\ start = "activated"
    /\ tail = <<>> \/ active # None
    /\ \/ /\ kind = "claude" /\ ending
          /\ start' = "failed"
          /\ CloseConn
          /\ UNCHANGED <<ref, adapter>>
       \/ /\ ~(kind = "claude" /\ ending)
          /\ start' = "running"
          /\ ref' = TRUE
          /\ adapter' = [adapter EXCEPT !.gen = gen, !.unregister = TRUE]
          /\ UNCHANGED link
    /\ UNCHANGED <<kind, ending, program, active, outcome, history>>

-----------------------------------------------------------------------------
(* Handing deliveries on *)

(* deliver() refuses at once: deliverOne of claude.ts when the session ends, *)
(* AcpClientHostAdapter.deliver when the adapter does, and when the          *)
(* generation is not the one it was registered with                          *)
Unavailable ==
    \/ kind = "claude" /\ ending
    \/ kind = "acp" /\ (adapter.terminal \/ adapter.closing \/ child = "ended")
Stale(f) == kind = "acp" /\ f.gen # adapter.gen

(* handleDelivery writes host_accept to the socket the delivery came over    *)
Tells(f) ==
    heard' = IF conn = "up" /\ f.gen = gen THEN heard \cup {f.msg} ELSE heard

(* The next frame's turn. A delivery this process accepted before is         *)
(* answered with the receipt it remembers.                                   *)
HandOver ==
    /\ active = None /\ tail # <<>>
    /\ LET f == Head(tail)
       IN  /\ IF f.msg \in accepted
              THEN Tells(f) /\ UNCHANGED <<active, refused>>
              ELSE /\ active' = IF Unavailable \/ Stale(f) THEN None
                                ELSE [msg |-> f.msg, gen |-> f.gen, at |-> "sent"]
                   /\ refused' = IF ~Unavailable /\ Stale(f)
                                 THEN refused \cup {[gen |-> f.gen, at |-> start]}
                                 ELSE refused
                   /\ UNCHANGED heard
    /\ tail' = Tail(tail)
    /\ UNCHANGED <<kind, start, ending, program, conn, gen, last, ref, adapter,
                   accepted, first, orphan>>

(* The answer of the program, to thread/queue/add or session/prompt, is on   *)
(* its way. There is none to notifications/claude/channel.                   *)
Answer ==
    /\ kind # "claude" /\ child = "up"
    /\ active # None /\ active.at = "sent"
    /\ active' = [active EXCEPT !.at = "answered"]
    /\ UNCHANGED <<kind, start, ending, program, link, ref, adapter, outcome,
                   history>>

Accept ==
    /\ accepted' = accepted \cup {active.msg}
    /\ Tells(active)

(* The notification was written, whether its client reads it or not, and the *)
(* phase is looked at again; the queue response is read, or the stop reason  *)
(* of the turn, which may be "cancelled" or unknown                          *)
Finish ==
    /\ Event
    /\ active # None
    /\ kind # "claude" => active.at = "answered"
    /\ \/ ~(kind = "claude" /\ ending) /\ Accept
       \/ kind # "codex" /\ (kind = "claude" => ending) /\ UNCHANGED <<accepted, heard>>
    /\ active' = None
    /\ UNCHANGED <<kind, start, ending, program, link, ref, adapter, history>>

(* Mutant: the deadline ends with the program's answer                       *)
RejectUnanswered ==
    /\ Event
    /\ kind # "claude"
    /\ active # None /\ active.at = "sent"
    /\ active' = None
    /\ UNCHANGED <<kind, start, ending, program, link, ref, adapter, outcome,
                   history>>

(* The call fails and host_reject is written: the program is gone, answers   *)
(* with an error or, for codex, not within timeout_ms, whether it took the   *)
(* message or not                                                            *)
Reject ==
    /\ Event
    /\ kind # "claude"
    /\ active # None
    /\ active' = None
    /\ UNCHANGED <<kind, start, ending, program, link, ref, adapter, outcome,
                   history>>

-----------------------------------------------------------------------------
(* Ending *)

(* AcpClientHostAdapter.fail: what it has under way is rejected, and the     *)
(* registration is given back once, if the adapter knows how to yet          *)
Fail ==
    /\ adapter' = [adapter EXCEPT !.terminal = TRUE, !.started = TRUE]
    /\ active' = None
    /\ IF adapter.unregister /\ ~adapter.started THEN CloseHeld
                                                 ELSE UNCHANGED <<ref, link>>
    /\ orphan' = (orphan \/ start = "registering")

Working == ~adapter.terminal /\ ~adapter.closing

(* A prompt times out, or the agent writes what is no frame or no answer     *)
AdapterFails ==
    /\ kind = "acp" /\ Event
    /\ start \in {"registering", "running"}
    /\ Working /\ child # "ended"
    /\ Fail
    /\ told' = TRUE
    /\ UNCHANGED <<kind, start, ending, child, outcome, refused, first>>

(* The program exits or closes its end, and the host does not know yet       *)
ChildDies ==
    /\ child = "up"
    /\ child' = "gone"
    /\ UNCHANGED <<kind, start, ending, told, link, ref, adapter, active, outcome,
                   history>>

(* The exit event of the child, or the end of the channel's transport        *)
ChildEnds ==
    /\ Event
    /\ child = "gone"
    /\ child' = "ended"
    /\ UNCHANGED <<kind, told, outcome, refused, first>>
    /\ CASE kind = "acp" /\ start # "starting" /\ Working ->
              /\ Fail
              /\ UNCHANGED <<start, ending>>
         [] kind = "acp" /\ (start = "starting" \/ ~Working) ->
              /\ start' = IF start = "starting" THEN "failed" ELSE start
              /\ UNCHANGED <<ending, link, ref, adapter, active, orphan>>
         [] kind # "acp" /\ ~ending ->
              /\ ending' = TRUE
              /\ CloseHeld
              /\ start' = IF kind = "codex" /\ start = "starting" THEN "failed"
                                                                  ELSE start
              /\ orphan' = (orphan \/ (kind = "codex" /\ start = "registering"))
              /\ UNCHANGED <<adapter, active>>
         [] kind # "acp" /\ ending ->
              UNCHANGED <<start, ending, link, ref, adapter, active, orphan>>

(* SIGINT or SIGTERM, or the end of claude's standard input: the session     *)
(* closes, and a host with a child, which listens to signals only when it    *)
(* has started, ends its process                                             *)
Shutdown ==
    /\ Event
    /\ told' = TRUE
    /\ \/ /\ kind = "claude" /\ ~ending
          /\ ending' = TRUE
          /\ CloseHeld
          /\ UNCHANGED <<adapter, active>>
       \/ /\ kind # "claude" /\ start = "running"
          /\ ending' = TRUE
          /\ adapter' = [adapter EXCEPT !.closing = TRUE, !.started = TRUE]
          /\ active' = None
          /\ ref' = FALSE
          /\ ~(ending /\ conn = "closed")
          /\ CloseConn
    /\ UNCHANGED <<kind, start, child, outcome, history>>

Next ==
    \/ Activate \/ LinkLost \/ Reconnect \/ Superseded
    \/ \E m \in Messages : Push(m)
    \/ Ready \/ StartFails \/ RegisterFails \/ Continue
    \/ HandOver \/ Answer \/ Finish \/ Reject
    \/ AdapterFails \/ ChildDies \/ ChildEnds \/ Shutdown

Spec == Init /\ [][Next]_vars

(* Callbacks run; a registration is answered or times out; a signalled       *)
(* program ends, and its host learns of it; requests to a program end by     *)
(* their deadlines; and standard output takes what is written to it, for     *)
(* which claude.ts has no deadline                                           *)
Fairness ==
    /\ WF_vars(Continue)
    /\ WF_vars(HandOver)
    /\ WF_vars(Activate \/ RegisterFails)
    /\ WF_vars(told /\ ChildDies)
    /\ WF_vars(ChildEnds)
    /\ WF_vars(kind = "claude" /\ Finish)
    /\ WF_vars(kind = "codex" /\ Reject)
    /\ WF_vars(active # None /\ AdapterFails)

FairSpec == Spec /\ Fairness

-----------------------------------------------------------------------------
(* Every variable keeps its shape.                                           *)
TypeOK ==
    /\ kind \in {"claude", "codex", "acp"}
    /\ start \in {"starting", "registering", "activated", "running", "failed"}
    /\ ending \in BOOLEAN /\ told \in BOOLEAN /\ ref \in BOOLEAN
    /\ orphan \in BOOLEAN
    /\ child \in {"up", "gone", "ended"}
    /\ conn \in {"none", "connecting", "up", "retry", "closed"}
    /\ gen \in 0..MaxGen /\ last \in 0..MaxGen /\ first \in 0..MaxGen
    /\ adapter \in Adapters
    /\ tail \in Seq(Frames)
    /\ active \in {None} \cup HandOvers
    /\ accepted \subseteq Messages
    /\ heard \subseteq Messages
    /\ refused \subseteq Refusals

(* The session is ending: it was closed or signalled, its adapter gave up,   *)
(* or the end of its program has been seen                                   *)
Over == ending \/ adapter.terminal \/ adapter.closing \/ child = "ended"

(* A host that is ending tells the router of no acceptance: not of a         *)
(* delivery that was on its way, whose answer or write completes afterwards, *)
(* not of one that comes over a registration the end overtook, and not of a  *)
(* remembered one that is pushed again.                                      *)
EndingHostsAcceptNothing == [][heard' # heard => ~Over]_vars

(* A delivery over the connection a host registered with is never refused as *)
(* stale, except one that was read in one chunk with the answer and overtook *)
(* the adapter's note of its generation. (Over a renewed connection every    *)
(* delivery is: the adapter is not told of the new generation.)              *)
StaleIsRenewed ==
    \A r \in refused :
        r.gen # first \/ (r.at = "activated" /\ r.gen # 1)

(* The router does not keep a host whose program has ended, however the end  *)
(* interleaves with registration, loss and renewal of its connection; except *)
(* when it came while codex.ts or acp.ts was registering.                    *)
EndedHostsLeave ==
    (child # "up" /\ ~orphan) ~> (conn \in {"none", "closed"} \/ orphan)

(* tests/host-runtime/codex.test.ts:161, "closes the exact router            *)
(* registration when the owned Codex process exits"                          *)
ExitCloses == (kind = "codex" /\ child = "ended") ~> conn \in {"none", "closed"}

(* A delivery does not occupy the host for ever: each is accepted or         *)
(* rejected, so the ones behind it have their turn.                          *)
DeliveriesEnd == active # None ~> active = None
=============================================================================
