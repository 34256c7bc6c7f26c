-------------------------- MODULE ManagedHostProofs --------------------------
(* What ManagedHost keeps for any deliveries and any number of registrations.*)
(* The invariant says what each phase of a start knows of the connection and *)
(* of the adapter (Phases), when nothing is accepted yet (Receipts), what    *)
(* each host still has to do when its program ends (Duties), and that a host *)
(* which is ending has nothing left to accept (Silence).                     *)
EXTENDS ManagedHost, SequenceTheorems, TLAPS

Phases ==
    /\ start = "starting" => conn = "none"
    /\ start = "registering" => conn = "connecting"
    /\ start = "activated" => conn = "up" /\ gen = first
    /\ start = "running" => conn \in {"up", "retry", "closed"} /\ adapter.gen = first
    /\ conn = "up" => gen # 0
    /\ start = "failed" => conn \in {"none", "closed"}
    /\ start # "running" => adapter.gen = 1 /\ ~adapter.unregister /\ ~ref
    /\ start \notin {"activated", "running"} => tail = <<>>
    /\ start \in {"starting", "registering"} => active = None /\ refused = {}

Receipts == start \in {"starting", "registering", "activated"} => accepted = {}

ChannelDuties ==
    kind # "acp" =>
        /\ ~Working \/ child = "ended" => ending
        /\ start = "running" /\ ~ending => ref
        /\ start = "running" /\ ending /\ ~orphan => conn = "closed"
        /\ start = "failed" => ending
        /\ kind = "claude" => ~orphan
        /\ kind = "codex" /\ start \in {"registering", "activated"} /\ ~orphan => ~ending

AdapterDuties ==
    kind = "acp" =>
        /\ orphan => adapter.terminal
        /\ start = "starting" => Working /\ ~adapter.started
        /\ start \in {"registering", "activated"} /\ ~orphan =>
              Working /\ ~adapter.started /\ child # "ended"
        /\ start = "running" /\ ~orphan =>
              IF Working THEN ref /\ adapter.unregister /\ ~adapter.started /\ child # "ended"
                         ELSE conn = "closed"

(* A host that is ending is off the router, or has nothing to tell it and    *)
(* will have nothing: what it is handed is refused, or was sent to a program *)
(* that cannot answer.                                                       *)
Silence ==
    /\ start = "starting" /\ ~ending => ~Over
    /\ Over =>
         \/ conn \in {"none", "closed"}
         \/ /\ accepted = {}
            /\ active # None => kind = "codex" /\ child = "ended" /\ active.at = "sent"
            /\ kind = "codex" => child = "ended"
            /\ kind = "acp" => adapter.terminal \/ adapter.closing \/ child = "ended"

IInv == TypeOK /\ Phases /\ Receipts /\ ChannelDuties /\ AdapterDuties /\ Silence
        /\ StaleIsRenewed

(* A host that runs and whose program has ended is off the router, unless    *)
(* the end came while it was registering (codex.ts:115, acp-client.ts:578).  *)
EndedHostsAreClosed ==
    start = "running" /\ child = "ended" /\ ~orphan => conn = "closed"

-----------------------------------------------------------------------------
(* The adapter before it knows how to leave the router.                      *)
LEMMA IdleIsAdapter == IdleAdapter \in Adapters
  BY DEF IdleAdapter, Adapters

(* What is left of the frames when they are discarded, or not.               *)
LEMMA Emptied == \A s \in Seq(Frames) : \A t \in {s, <<>>} : t \in Seq(Frames)
  BY EmptySeq

(* Two conjuncts of the type, for steps that leave them alone.               *)
LEMMA Typed ==
    TypeOK => /\ tail \in Seq(Frames)
              /\ refused \subseteq Refusals
  BY DEF TypeOK

(* Every host begins in the invariant.                                       *)
LEMMA Starts == Init => IInv
<1>. SUFFICES ASSUME Init PROVE IInv
  OBVIOUS
<1>. USE BoundsAssumption DEF Init
<1>1. TypeOK
  <2>1. adapter \in Adapters
    BY IdleIsAdapter
  <2>2. tail \in Seq(Frames)
    BY EmptySeq
  <2>3. gen \in 0..MaxGen /\ first \in 0..MaxGen
    OBVIOUS
  <2>4. refused \subseteq Refusals /\ active \in {None} \cup HandOvers
    OBVIOUS
  <2>. QED  BY <2>1, <2>2, <2>3, <2>4, Zenon DEF TypeOK
<1>2. Phases
  BY DEF Phases, IdleAdapter
<1>3. Receipts
  BY DEF Receipts
<1>4. ChannelDuties
  BY DEF ChannelDuties, Working, IdleAdapter
<1>5. AdapterDuties
  BY DEF AdapterDuties, Working, IdleAdapter
<1>6. StaleIsRenewed
  BY DEF StaleIsRenewed
<1>7. Silence
  BY DEF Silence, Over, IdleAdapter
<1>. QED  BY <1>1, <1>2, <1>3, <1>4, <1>5, <1>6, <1>7 DEF IInv

LEMMA ActivateKeeps ==
  ASSUME IInv, Activate PROVE IInv'
<1>. USE NoneAssumption, BoundsAssumption DEF IInv, Activate, NewGeneration, program, link, outcome, history
<1>1. TypeOK'
  <2>1. adapter' \in Adapters
    BY DEF TypeOK, Adapters
  <2>2. active' \in {None} \cup HandOvers
    BY DEF TypeOK
  <2>3. tail' \in Seq(Frames)
    <3>1. PICK frames \in {<<>>} \cup {<<[msg |-> m, gen |-> last + 1]>> : m \in Messages} :
             tail' = tail \o frames
      OBVIOUS
    <3>2. \A m \in Messages : [msg |-> m, gen |-> last + 1] \in Frames
      BY DEF TypeOK, Frames
    <3>3. frames \in Seq(Frames)
      <4>1. CASE frames = <<>>
        BY <4>1
      <4>2. ASSUME NEW m \in Messages, frames = <<[msg |-> m, gen |-> last + 1]>>
            PROVE  frames \in Seq(Frames)
        BY <3>2, <4>2
      <4>. QED  BY <3>1, <4>1, <4>2
    <3>. QED  BY <3>1, <3>3 DEF TypeOK
  <2>4. refused' \subseteq Refusals
    BY DEF TypeOK
  <2>. QED  BY <2>1, <2>2, <2>3, <2>4 DEF TypeOK
<1>2. Phases'
  BY DEF Phases, TypeOK
<1>3. Receipts'
  BY DEF Receipts, TypeOK, Phases
<1>4. ChannelDuties'
  BY DEF ChannelDuties, Working, TypeOK, Phases
<1>5. AdapterDuties'
  BY DEF AdapterDuties, Working, TypeOK, Phases
<1>6. StaleIsRenewed'
  BY DEF StaleIsRenewed, TypeOK, Phases
<1>7. Silence'
  BY DEF Silence, Over, Working, TypeOK, Phases, Receipts, ChannelDuties, AdapterDuties
<1>. QED  BY <1>1, <1>2, <1>3, <1>4, <1>5, <1>6, <1>7

LEMMA LinkLostKeeps ==
  ASSUME IInv, LinkLost PROVE IInv'
<1>. USE NoneAssumption, BoundsAssumption DEF IInv, LinkLost, Event, program, link, outcome, history
<1>1. TypeOK'
  BY DEF TypeOK, Frames
<1>2. Phases'
  BY DEF Phases, TypeOK
<1>3. Receipts'
  BY DEF Receipts, TypeOK, Phases
<1>4. ChannelDuties'
  BY DEF ChannelDuties, Working, TypeOK, Phases
<1>5. AdapterDuties'
  BY DEF AdapterDuties, Working, TypeOK, Phases
<1>6. StaleIsRenewed'
  BY DEF StaleIsRenewed, TypeOK, Phases
<1>7. Silence'
  BY DEF Silence, Over, Working, TypeOK, Phases, Receipts, ChannelDuties, AdapterDuties
<1>. QED  BY <1>1, <1>2, <1>3, <1>4, <1>5, <1>6, <1>7

LEMMA ReconnectKeeps ==
  ASSUME IInv, Reconnect PROVE IInv'
<1>. USE NoneAssumption, BoundsAssumption DEF IInv, Reconnect, NewGeneration, program, link, outcome, history
<1>1. TypeOK'
  BY DEF TypeOK, Frames
<1>2. Phases'
  BY DEF Phases, TypeOK
<1>3. Receipts'
  BY DEF Receipts, TypeOK, Phases
<1>4. ChannelDuties'
  BY DEF ChannelDuties, Working, TypeOK, Phases
<1>5. AdapterDuties'
  BY DEF AdapterDuties, Working, TypeOK, Phases
<1>6. StaleIsRenewed'
  BY DEF StaleIsRenewed, TypeOK, Phases
<1>7. Silence'
  BY DEF Silence, Over, Working, TypeOK, Phases, Receipts, ChannelDuties, AdapterDuties
<1>. QED  BY <1>1, <1>2, <1>3, <1>4, <1>5, <1>6, <1>7

LEMMA SupersededKeeps ==
  ASSUME IInv, Superseded PROVE IInv'
<1>. USE NoneAssumption, BoundsAssumption DEF IInv, Superseded, CloseConn, Event, program, link, outcome, history
<1>1. TypeOK'
  BY DEF TypeOK, Frames
<1>2. Phases'
  BY DEF Phases, TypeOK
<1>3. Receipts'
  BY DEF Receipts, TypeOK, Phases
<1>4. ChannelDuties'
  BY DEF ChannelDuties, Working, TypeOK, Phases
<1>5. AdapterDuties'
  BY DEF AdapterDuties, Working, TypeOK, Phases
<1>6. StaleIsRenewed'
  BY DEF StaleIsRenewed, TypeOK, Phases
<1>7. Silence'
  BY DEF Silence, Over, Working, TypeOK, Phases, Receipts, ChannelDuties, AdapterDuties
<1>. QED  BY <1>1, <1>2, <1>3, <1>4, <1>5, <1>6, <1>7

LEMMA PushKeeps ==
  ASSUME IInv, NEW m \in Messages, Push(m) PROVE IInv'
<1>. USE NoneAssumption, BoundsAssumption DEF IInv, Push, Event, program, link, outcome, history
<1>1. TypeOK'
  <2>1. adapter' \in Adapters
    BY DEF TypeOK, Adapters
  <2>2. active' \in {None} \cup HandOvers
    BY DEF TypeOK
  <2>3. tail' \in Seq(Frames)
    <3>1. [msg |-> m, gen |-> gen] \in Frames
      <4>1. gen \in 1..MaxGen
        BY DEF TypeOK, Phases
      <4>. QED  BY <4>1 DEF Frames
    <3>. QED  BY <3>1 DEF TypeOK
  <2>4. refused' \subseteq Refusals
    BY DEF TypeOK
  <2>. QED  BY <2>1, <2>2, <2>3, <2>4 DEF TypeOK
<1>2. Phases'
  BY DEF Phases, TypeOK
<1>3. Receipts'
  BY DEF Receipts, TypeOK, Phases
<1>4. ChannelDuties'
  BY DEF ChannelDuties, Working, TypeOK, Phases
<1>5. AdapterDuties'
  BY DEF AdapterDuties, Working, TypeOK, Phases
<1>6. StaleIsRenewed'
  BY DEF StaleIsRenewed, TypeOK, Phases
<1>7. Silence'
  BY DEF Silence, Over, Working, TypeOK, Phases, Receipts, ChannelDuties, AdapterDuties
<1>. QED  BY <1>1, <1>2, <1>3, <1>4, <1>5, <1>6, <1>7

LEMMA ReadyKeeps ==
  ASSUME IInv, Ready PROVE IInv'
<1>. USE NoneAssumption, BoundsAssumption DEF IInv, Ready, program, link, outcome, history
<1>1. TypeOK'
  BY DEF TypeOK, Frames
<1>2. Phases'
  BY DEF Phases, TypeOK
<1>3. Receipts'
  BY DEF Receipts, TypeOK, Phases
<1>4. ChannelDuties'
  BY DEF ChannelDuties, Working, TypeOK, Phases
<1>5. AdapterDuties'
  BY DEF AdapterDuties, Working, TypeOK, Phases
<1>6. StaleIsRenewed'
  BY DEF StaleIsRenewed, TypeOK, Phases
<1>7. Silence'
  BY DEF Silence, Over, Working, TypeOK, Phases, Receipts, ChannelDuties, AdapterDuties
<1>. QED  BY <1>1, <1>2, <1>3, <1>4, <1>5, <1>6, <1>7

LEMMA StartFailsKeeps ==
  ASSUME IInv, StartFails PROVE IInv'
<1>. USE NoneAssumption, BoundsAssumption DEF IInv, StartFails, GiveUp, program, link, outcome, history
<1>1. TypeOK'
  <2>1. adapter' \in Adapters
    BY DEF TypeOK, Adapters
  <2>. QED  BY <2>1 DEF TypeOK
<1>2. Phases'
  BY DEF Phases, TypeOK
<1>3. Receipts'
  BY DEF Receipts, TypeOK, Phases
<1>4. ChannelDuties'
  BY DEF ChannelDuties, Working, TypeOK, Phases
<1>5. AdapterDuties'
  BY DEF AdapterDuties, Working, TypeOK, Phases
<1>6. StaleIsRenewed'
  BY DEF StaleIsRenewed, TypeOK, Phases
<1>7. Silence'
  BY DEF Silence, Over, Working, TypeOK, Phases, Receipts, ChannelDuties, AdapterDuties
<1>. QED  BY <1>1, <1>2, <1>3, <1>4, <1>5, <1>6, <1>7

LEMMA RegisterFailsKeeps ==
  ASSUME IInv, RegisterFails PROVE IInv'
<1>. USE NoneAssumption, BoundsAssumption DEF IInv, RegisterFails, GiveUp, program, link, outcome, history
<1>1. TypeOK'
  <2>1. adapter' \in Adapters
    BY DEF TypeOK, Adapters
  <2>. QED  BY <2>1 DEF TypeOK
<1>2. Phases'
  BY DEF Phases, TypeOK
<1>3. Receipts'
  BY DEF Receipts, TypeOK, Phases
<1>4. ChannelDuties'
  BY DEF ChannelDuties, Working, TypeOK, Phases
<1>5. AdapterDuties'
  BY DEF AdapterDuties, Working, TypeOK, Phases
<1>6. StaleIsRenewed'
  BY DEF StaleIsRenewed, TypeOK, Phases
<1>7. Silence'
  BY DEF Silence, Over, Working, TypeOK, Phases, Receipts, ChannelDuties, AdapterDuties
<1>. QED  BY <1>1, <1>2, <1>3, <1>4, <1>5, <1>6, <1>7

LEMMA ContinueKeeps ==
  ASSUME IInv, Continue PROVE IInv'
<1>. USE NoneAssumption, BoundsAssumption DEF IInv, Continue, CloseConn, link, program, link, outcome, history
<1>1. TypeOK'
  <2>1. adapter' \in Adapters
    BY DEF TypeOK, Adapters
  <2>2. active' \in {None} \cup HandOvers
    BY DEF TypeOK
  <2>3. tail' \in Seq(Frames)
    <3>1. tail' \in {tail, <<>>}
      OBVIOUS
    <3>2. tail \in Seq(Frames)
      BY Typed
    <3>. QED  BY <3>1, <3>2, Emptied
  <2>4. refused' \subseteq Refusals
    BY DEF TypeOK
  <2>. QED  BY <2>1, <2>2, <2>3, <2>4 DEF TypeOK
<1>2. Phases'
  <2>1. CASE kind = "claude" /\ ending
    BY <2>1 DEF Phases, TypeOK, Adapters
  <2>2. CASE ~(kind = "claude" /\ ending)
    <3>1. adapter' = [adapter EXCEPT !.gen = gen, !.unregister = TRUE]
      BY <2>2
    <3>2. adapter'.gen = gen
      BY <3>1 DEF TypeOK
    <3>. QED  BY <2>2, <3>2 DEF Phases, TypeOK, Adapters
  <2>. QED  BY <2>1, <2>2
<1>3. Receipts'
  BY DEF Receipts, TypeOK, Phases
<1>4. ChannelDuties'
  BY DEF ChannelDuties, Working, Adapters, TypeOK, Phases
<1>5. AdapterDuties'
  BY DEF AdapterDuties, Working, TypeOK, Phases, Adapters
<1>6. StaleIsRenewed'
  BY DEF StaleIsRenewed, TypeOK, Phases
<1>7. Silence'
  <2>1. CASE kind = "claude"
    BY <2>1 DEF Silence, Over, Working, TypeOK, Phases, Receipts, ChannelDuties, AdapterDuties, Adapters
  <2>2. CASE kind = "codex"
    BY <2>2 DEF Silence, Over, Working, TypeOK, Phases, Receipts, ChannelDuties, AdapterDuties, Adapters
  <2>3. CASE kind = "acp"
    BY <2>3 DEF Silence, Over, Working, TypeOK, Phases, Receipts, ChannelDuties, AdapterDuties, Adapters
  <2>. QED  BY <2>1, <2>2, <2>3 DEF TypeOK
<1>. QED  BY <1>1, <1>2, <1>3, <1>4, <1>5, <1>6, <1>7

LEMMA HandOverKeeps ==
  ASSUME IInv, HandOver PROVE IInv'
<1>. USE NoneAssumption, BoundsAssumption DEF IInv, HandOver, Unavailable, Stale, Tells, program, link, outcome, history
<1>0. /\ Head(tail) \in Frames
      /\ Tail(tail) \in Seq(Frames)
  BY DEF TypeOK
<1>1. TypeOK'
  <2>1. adapter' \in Adapters
    BY DEF TypeOK, Adapters
  <2>2. active' \in {None} \cup HandOvers
    BY <1>0 DEF TypeOK, Frames, HandOvers
  <2>3. tail' \in Seq(Frames)
    BY <1>0 DEF TypeOK
  <2>4. refused' \subseteq Refusals
    BY <1>0 DEF TypeOK, Frames, Refusals, Phases
  <2>. QED  BY <2>1, <2>2, <2>3, <2>4 DEF TypeOK
<1>2. Phases'
  BY DEF Phases, TypeOK
<1>3. Receipts'
  BY DEF Receipts, TypeOK, Phases
<1>4. ChannelDuties'
  BY DEF ChannelDuties, Working, TypeOK, Phases
<1>5. AdapterDuties'
  BY DEF AdapterDuties, Working, TypeOK, Phases
<1>6. StaleIsRenewed'
  BY DEF StaleIsRenewed, TypeOK, Phases
<1>7. Silence'
  <2>1. Over' <=> Over
    BY DEF Over
  <2>2. CASE ~Over \/ conn \in {"none", "closed"}
    BY <2>1, <2>2 DEF Silence
  <2>3. CASE Over /\ conn \notin {"none", "closed"}
    <3>1. /\ accepted = {}
          /\ active = None
          /\ kind = "claude" => ending
          /\ kind = "acp" => adapter.terminal \/ adapter.closing \/ child = "ended"
          /\ kind = "codex" => child = "ended"
      BY <2>3 DEF Silence, Over, Working, TypeOK, ChannelDuties, Phases
    <3>2. accepted' = {} /\ (active' # None => kind = "codex" /\ active'.at = "sent")
      BY <3>1 DEF TypeOK
    <3>. QED  BY <2>1, <2>3, <3>1, <3>2 DEF Silence
  <2>. QED  BY <2>2, <2>3
<1>. QED  BY <1>1, <1>2, <1>3, <1>4, <1>5, <1>6, <1>7

LEMMA AnswerKeeps ==
  ASSUME IInv, Answer PROVE IInv'
<1>. USE NoneAssumption, BoundsAssumption DEF IInv, Answer, program, link, outcome, history
<1>1. TypeOK'
  <2>1. adapter' \in Adapters
    BY DEF TypeOK, Adapters
  <2>2. active' \in {None} \cup HandOvers
    BY DEF TypeOK, HandOvers
  <2>3. tail' \in Seq(Frames)
    BY DEF TypeOK, Frames
  <2>4. refused' \subseteq Refusals
    BY DEF TypeOK
  <2>. QED  BY <2>1, <2>2, <2>3, <2>4 DEF TypeOK
<1>2. Phases'
  BY DEF Phases, TypeOK
<1>3. Receipts'
  BY DEF Receipts, TypeOK, Phases
<1>4. ChannelDuties'
  BY DEF ChannelDuties, Working, TypeOK, Phases
<1>5. AdapterDuties'
  BY DEF AdapterDuties, Working, TypeOK, Phases
<1>6. StaleIsRenewed'
  BY DEF StaleIsRenewed, TypeOK, Phases
<1>7. Silence'
  BY DEF Silence, Over, Working, TypeOK, Phases, Receipts, ChannelDuties, AdapterDuties
<1>. QED  BY <1>1, <1>2, <1>3, <1>4, <1>5, <1>6, <1>7

LEMMA FinishKeeps ==
  ASSUME IInv, Finish PROVE IInv'
<1>. USE NoneAssumption, BoundsAssumption DEF IInv, Finish, Event, Accept, Tells, program, link, outcome, history
<1>1. TypeOK'
  <2>1. active.msg \in Messages
    BY DEF TypeOK, HandOvers
  <2>. QED  BY <2>1 DEF TypeOK
<1>2. Phases'
  BY DEF Phases, TypeOK
<1>3. Receipts'
  BY DEF Receipts, TypeOK, Phases
<1>4. ChannelDuties'
  BY DEF ChannelDuties, Working, TypeOK, Phases
<1>5. AdapterDuties'
  BY DEF AdapterDuties, Working, TypeOK, Phases
<1>6. StaleIsRenewed'
  BY DEF StaleIsRenewed, TypeOK, Phases
<1>7. Silence'
  BY DEF Silence, Over, Working, TypeOK, Phases, Receipts, ChannelDuties, AdapterDuties
<1>. QED  BY <1>1, <1>2, <1>3, <1>4, <1>5, <1>6, <1>7

LEMMA RejectKeeps ==
  ASSUME IInv, Reject PROVE IInv'
<1>. USE NoneAssumption, BoundsAssumption DEF IInv, Reject, Event, program, link, outcome, history
<1>1. TypeOK'
  BY DEF TypeOK, Frames
<1>2. Phases'
  BY DEF Phases, TypeOK
<1>3. Receipts'
  BY DEF Receipts, TypeOK, Phases
<1>4. ChannelDuties'
  BY DEF ChannelDuties, Working, TypeOK, Phases
<1>5. AdapterDuties'
  BY DEF AdapterDuties, Working, TypeOK, Phases
<1>6. StaleIsRenewed'
  BY DEF StaleIsRenewed, TypeOK, Phases
<1>7. Silence'
  BY DEF Silence, Over, Working, TypeOK, Phases, Receipts, ChannelDuties, AdapterDuties
<1>. QED  BY <1>1, <1>2, <1>3, <1>4, <1>5, <1>6, <1>7

LEMMA AdapterFailsKeeps ==
  ASSUME IInv, AdapterFails PROVE IInv'
<1>. USE NoneAssumption, BoundsAssumption DEF IInv, AdapterFails, Event, Fail, CloseHeld, CloseConn, Working, program, link, outcome, history
<1>1. TypeOK'
  <2>1. adapter' \in Adapters
    BY DEF TypeOK, Adapters
  <2>2. active' \in {None} \cup HandOvers
    BY DEF TypeOK
  <2>3. tail' \in Seq(Frames)
    <3>1. tail' \in {tail, <<>>}
      OBVIOUS
    <3>2. tail \in Seq(Frames)
      BY Typed
    <3>. QED  BY <3>1, <3>2, Emptied
  <2>4. refused' \subseteq Refusals
    BY DEF TypeOK
  <2>. QED  BY <2>1, <2>2, <2>3, <2>4 DEF TypeOK
<1>2. Phases'
  BY DEF Phases, TypeOK, Adapters
<1>3. Receipts'
  BY DEF Receipts, TypeOK, Phases
<1>4. ChannelDuties'
  BY DEF ChannelDuties, Working, TypeOK, Phases
<1>5. AdapterDuties'
  BY DEF AdapterDuties, TypeOK, Phases, Adapters
<1>6. StaleIsRenewed'
  BY DEF StaleIsRenewed, TypeOK, Phases
<1>7. Silence'
  <2>1. CASE kind = "claude"
    BY <2>1 DEF Silence, Over, Working, TypeOK, Phases, Receipts, ChannelDuties, AdapterDuties, Adapters
  <2>2. CASE kind = "codex"
    BY <2>2 DEF Silence, Over, Working, TypeOK, Phases, Receipts, ChannelDuties, AdapterDuties, Adapters
  <2>3. CASE kind = "acp"
    BY <2>3 DEF Silence, Over, Working, TypeOK, Phases, Receipts, ChannelDuties, AdapterDuties, Adapters
  <2>. QED  BY <2>1, <2>2, <2>3 DEF TypeOK
<1>. QED  BY <1>1, <1>2, <1>3, <1>4, <1>5, <1>6, <1>7

LEMMA ChildDiesKeeps ==
  ASSUME IInv, ChildDies PROVE IInv'
<1>. USE NoneAssumption, BoundsAssumption DEF IInv, ChildDies, link, outcome, history
<1>1. TypeOK'
  BY DEF TypeOK, Frames
<1>2. Phases'
  BY DEF Phases, TypeOK
<1>3. Receipts'
  BY DEF Receipts, TypeOK, Phases
<1>4. ChannelDuties'
  BY DEF ChannelDuties, Working, TypeOK, Phases
<1>5. AdapterDuties'
  BY DEF AdapterDuties, Working, TypeOK, Phases
<1>6. StaleIsRenewed'
  BY DEF StaleIsRenewed, TypeOK, Phases
<1>7. Silence'
  BY DEF Silence, Over, Working, TypeOK, Phases, Receipts, ChannelDuties, AdapterDuties
<1>. QED  BY <1>1, <1>2, <1>3, <1>4, <1>5, <1>6, <1>7

LEMMA ChildEndsKeeps ==
  ASSUME IInv, ChildEnds PROVE IInv'
<1>. USE NoneAssumption, BoundsAssumption DEF IInv, ChildEnds, Event, Fail, CloseHeld, CloseConn, Working, link, program, link, outcome, history
<1>1. TypeOK'
  <2>1. adapter' \in Adapters
    BY DEF TypeOK, Adapters
  <2>2. active' \in {None} \cup HandOvers
    BY DEF TypeOK
  <2>3. tail' \in Seq(Frames)
    <3>1. tail' \in {tail, <<>>}
      OBVIOUS
    <3>2. tail \in Seq(Frames)
      BY Typed
    <3>. QED  BY <3>1, <3>2, Emptied
  <2>4. refused' \subseteq Refusals
    <3>1. refused' = refused
      OBVIOUS
    <3>2. refused \subseteq Refusals
      BY Typed
    <3>. QED  BY <3>1, <3>2
  <2>5. /\ kind' \in {"claude", "codex", "acp"}
        /\ start' \in {"starting", "registering", "activated", "running", "failed"}
        /\ ending' \in BOOLEAN /\ told' \in BOOLEAN /\ orphan' \in BOOLEAN
        /\ child' \in {"up", "gone", "ended"}
    BY DEF TypeOK
  <2>6. /\ ref' \in BOOLEAN
        /\ conn' \in {"none", "connecting", "up", "retry", "closed"}
        /\ gen' \in 0..MaxGen /\ last' \in 0..MaxGen /\ first' \in 0..MaxGen
    BY DEF TypeOK
  <2>7. accepted' \subseteq Messages /\ heard' \subseteq Messages
    BY DEF TypeOK
  <2>. HIDE DEF IInv, ChildEnds, Event, Fail, CloseHeld, CloseConn, Working, link, program, outcome, history
  <2>. QED  BY <2>1, <2>2, <2>3, <2>4, <2>5, <2>6, <2>7 DEF TypeOK
<1>2. Phases'
  BY DEF Phases, TypeOK, Adapters
<1>3. Receipts'
  BY DEF Receipts, TypeOK, Phases
<1>4. ChannelDuties'
  BY DEF ChannelDuties, Working, TypeOK, Phases
<1>5. AdapterDuties'
  BY DEF AdapterDuties, TypeOK, Phases, Adapters
<1>6. StaleIsRenewed'
  BY DEF StaleIsRenewed, TypeOK, Phases
<1>7. Silence'
  <2>1. CASE kind = "claude"
    BY <2>1 DEF Silence, Over, Working, TypeOK, Phases, Receipts, ChannelDuties, AdapterDuties, Adapters
  <2>2. CASE kind = "codex"
    BY <2>2 DEF Silence, Over, Working, TypeOK, Phases, Receipts, ChannelDuties, AdapterDuties, Adapters
  <2>3. CASE kind = "acp"
    BY <2>3 DEF Silence, Over, Working, TypeOK, Phases, Receipts, ChannelDuties, AdapterDuties, Adapters
  <2>. QED  BY <2>1, <2>2, <2>3 DEF TypeOK
<1>. QED  BY <1>1, <1>2, <1>3, <1>4, <1>5, <1>6, <1>7

LEMMA ShutdownKeeps ==
  ASSUME IInv, Shutdown PROVE IInv'
<1>. USE NoneAssumption, BoundsAssumption DEF IInv, Shutdown, Event, CloseHeld, CloseConn, link, program, link, outcome, history
<1>1. TypeOK'
  <2>1. adapter' \in Adapters
    BY DEF TypeOK, Adapters
  <2>2. active' \in {None} \cup HandOvers
    BY DEF TypeOK
  <2>3. tail' \in Seq(Frames)
    <3>1. tail' \in {tail, <<>>}
      OBVIOUS
    <3>2. tail \in Seq(Frames)
      BY Typed
    <3>. QED  BY <3>1, <3>2, Emptied
  <2>4. refused' \subseteq Refusals
    BY DEF TypeOK
  <2>. QED  BY <2>1, <2>2, <2>3, <2>4 DEF TypeOK
<1>2. Phases'
  BY DEF Phases, TypeOK, Adapters
<1>3. Receipts'
  BY DEF Receipts, TypeOK, Phases
<1>4. ChannelDuties'
  BY DEF ChannelDuties, Working, TypeOK, Phases
<1>5. AdapterDuties'
  BY DEF AdapterDuties, Working, TypeOK, Phases, Adapters
<1>6. StaleIsRenewed'
  BY DEF StaleIsRenewed, TypeOK, Phases
<1>7. Silence'
  BY DEF Silence, Over, Working, TypeOK, Phases, Receipts, ChannelDuties, AdapterDuties
<1>. QED  BY <1>1, <1>2, <1>3, <1>4, <1>5, <1>6, <1>7

(* The invariant is inductive.                                               *)
LEMMA Inductive == IInv /\ [Next]_vars => IInv'
<1>. SUFFICES ASSUME IInv, [Next]_vars PROVE IInv'
  OBVIOUS
<1>1. CASE UNCHANGED vars
  BY <1>1 DEF IInv, vars, TypeOK, Phases, Receipts, ChannelDuties, AdapterDuties,
              Silence, Over, StaleIsRenewed, Working
<1>2. ASSUME NEW m \in Messages, Push(m) PROVE IInv'
  BY <1>2, PushKeeps
<1>3. CASE Activate \/ LinkLost \/ Reconnect \/ Superseded
  BY <1>3, ActivateKeeps, LinkLostKeeps, ReconnectKeeps, SupersededKeeps
<1>4. CASE Ready \/ StartFails \/ RegisterFails \/ Continue
  BY <1>4, ReadyKeeps, StartFailsKeeps, RegisterFailsKeeps, ContinueKeeps
<1>5. CASE HandOver \/ Answer \/ Finish \/ Reject
  BY <1>5, HandOverKeeps, AnswerKeeps, FinishKeeps, RejectKeeps
<1>6. CASE AdapterFails \/ ChildDies \/ ChildEnds \/ Shutdown
  BY <1>6, AdapterFailsKeeps, ChildDiesKeeps, ChildEndsKeeps, ShutdownKeeps
<1>. QED  BY <1>1, <1>2, <1>3, <1>4, <1>5, <1>6 DEF Next

(* Every host keeps the invariant for ever.                                  *)
LEMMA Invariant == Spec => []IInv
<1>1. Init => IInv
  BY Starts
<1>2. IInv /\ [Next]_vars => IInv'
  BY Inductive
<1>. QED  BY <1>1, <1>2, PTL DEF Spec

-----------------------------------------------------------------------------
(* Type correctness, for any deliveries and bounds.                          *)
THEOREM HostTypes == Spec => []TypeOK
<1>1. IInv => TypeOK
  BY DEF IInv
<1>. QED  BY <1>1, Invariant, PTL

(* AcpClientHostAdapter.deliver: a delivery of the generation a host         *)
(* registered with is refused as stale only when it came in one chunk with   *)
(* the answer to the registration.                                           *)
THEOREM OnlyRenewalsAreStale == Spec => []StaleIsRenewed
<1>1. IInv => StaleIsRenewed
  BY DEF IInv
<1>. QED  BY <1>1, Invariant, PTL

(* host_accept is written by no host that is ending, in every interleaving   *)
(* of deliveries and their answers with a start, a renewal and an end.       *)
THEOREM NothingAfterTheEnd == Spec => EndingHostsAcceptNothing
<1>1. IInv /\ [Next]_vars => [heard' # heard => ~Over]_vars
  <2>. SUFFICES ASSUME IInv, [Next]_vars, heard' # heard PROVE ~Over
    OBVIOUS
  <2>. USE DEF IInv
  <2>1. HandOver \/ Finish
    BY DEF Next, vars, Activate, LinkLost, Reconnect, Superseded, Push, Ready, StartFails,
           RegisterFails, GiveUp, Continue, Answer, Reject, AdapterFails, ChildDies,
           ChildEnds, Shutdown, outcome, program, link, history
  <2>2. CASE HandOver
    <3>1. conn = "up" /\ Head(tail).msg \in accepted
      BY <2>2 DEF HandOver, Tells
    <3>. QED  BY <3>1 DEF Silence
  <2>3. CASE Finish
    <3>1. conn = "up" /\ active # None /\ (kind = "codex" => active.at = "answered")
      BY <2>3 DEF Finish, Accept, Tells
    <3>. QED  BY <3>1 DEF Silence
  <2>. QED  BY <2>1, <2>2, <2>3
<1>. QED  BY <1>1, Invariant, PTL DEF Spec, EndingHostsAcceptNothing

(* The safety half of EndedHostsLeave.                                       *)
THEOREM EndedHostsClose == Spec => []EndedHostsAreClosed
<1>1. IInv => EndedHostsAreClosed
  BY DEF IInv, EndedHostsAreClosed, ChannelDuties, AdapterDuties, Working
<1>. QED  BY <1>1, Invariant, PTL
=============================================================================
