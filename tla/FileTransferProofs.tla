------------------------- MODULE FileTransferProofs -------------------------
(***************************************************************************)
(* Proofs about FileTransfer, for any files, packet sizes, numbers of runs *)
(* of ropen and faults: what ropen sends is what RemoteFiles assumes; and  *)
(* about RemoteFiles, which the sessions so implement.                     *)
(***************************************************************************)
EXTENDS FileTransfer, SequenceTheorems, TLAPS

-----------------------------------------------------------------------------
(* What may be on its way *)

\* The streams of c.
StreamsOf(c) == {k \in DOMAIN files : files[k].source = c}

\* Packets of a stream of c, with what c holds at the offset they are for.
PacketsFor(c) ==
  {d \in [kind : {"Data"}, id : StreamsOf(c), packet : 0..Size[c], from : 0..Size[c], len : 0..Size[c]] :
     d.from = d.packet /\ d.packet + d.len <= Size[c]}

Questions(c) == [kind : {"GetCapabilities"}] \cup [kind : {"OpenFileTransfer"}, source : {c}]
                  \cup [kind : {"GetTransferStatus", "ViewRemoteFile"}, id : Nat]

\* The answer to a request to open c names one of its streams, ...
OpenAcks(c) == [kind : {"Ack"}, request : [kind : {"OpenFileTransfer"}, source : {c}], id : StreamsOf(c)]

ViewAcks == [kind : {"Ack"}, request : [kind : {"ViewRemoteFile"}, id : Nat], id : Nat]

\* ... and no more was received than there is.
Statuses == {m \in [kind : {"TransferStatus"}, id : DOMAIN files, received : Nat] :
               m.received <= Size[files[m.id].source]}

Answers(c) == [kind : {"Capabilities"}] \cup OpenAcks(c) \cup ViewAcks \cup Statuses
                \cup [kind : {"Nack"}, request : Questions(c)]

-----------------------------------------------------------------------------
(* The inductive invariant *)

FilesInv ==
  /\ DOMAIN files \subseteq 1..MaxOpens
  /\ \A k \in DOMAIN files :
       /\ files[k] \in [source : Sources, received : Nat, path : RF!Paths, isOpen : BOOLEAN]
       /\ files[k].received <= Size[files[k].source]

ChannelsInv(c) == /\ toTerm[c] \in Seq(Questions(c) \cup PacketsFor(c))
                  /\ toClient[c] \in Seq(Answers(c))

Calls(c) == [phase : DOMAIN Expected \cup {"idle", "data", "done", "failed", "crashed"},
             result : {"wait", "none", "nack"}, attempts : Int, answer : {"none"} \cup Answers(c)]

Ropens == [sent : Nat, pos : Nat, eof : BOOLEAN, packets : Int, limit : Int, id : Nat]

\* sent_ is where ropen stands in its file, and the stream is one of this file.
RopenInv(c) ==
  /\ call[c] \in Calls(c) /\ ropen[c] \in Ropens
  /\ ropen[c].pos = ropen[c].sent /\ ropen[c].sent <= Size[c]
  /\ call[c].phase \in {"data", "status"} => ropen[c].id \in StreamsOf(c)
  /\ Answered(c, "open") => call[c].answer \in OpenAcks(c)
  /\ Answered(c, "status") => /\ call[c].answer \in Statuses
                              /\ call[c].answer.id = ropen[c].id

SourceInv(c) == ChannelsInv(c) /\ RopenInv(c)

OfSources(f) == DOMAIN f = Sources

Inv == /\ FilesInv
       /\ OfSources(toTerm) /\ OfSources(toClient) /\ OfSources(call) /\ OfSources(ropen)
       /\ \A c \in Sources : SourceInv(c)

-----------------------------------------------------------------------------
(* What was right stays right *)

\* Streams come, and stay those of their sources.
FilesGrow == \A k \in DOMAIN files : k \in DOMAIN files' /\ files'[k].source = files[k].source

LEMMA SetsGrow ==
  ASSUME FilesGrow, NEW c
  PROVE  /\ StreamsOf(c) \subseteq StreamsOf(c)' /\ PacketsFor(c) \subseteq PacketsFor(c)'
         /\ OpenAcks(c) \subseteq OpenAcks(c)' /\ Statuses \subseteq Statuses'
         /\ Answers(c) \subseteq Answers(c)'
<1>1. StreamsOf(c) \subseteq StreamsOf(c)'
  BY DEF FilesGrow, StreamsOf
<1>2. PacketsFor(c) \subseteq PacketsFor(c)'
  BY <1>1 DEF PacketsFor
<1>3. OpenAcks(c) \subseteq OpenAcks(c)'
  BY <1>1 DEF OpenAcks
<1>4. Statuses \subseteq Statuses'
  BY DEF FilesGrow, Statuses
<1>. QED
  BY <1>1, <1>2, <1>3, <1>4 DEF Answers

LEMMA SeqGrows == ASSUME NEW S, NEW T, S \subseteq T PROVE Seq(S) \subseteq Seq(T)
OBVIOUS

LEMMA ChannelsKept ==
  ASSUME FilesGrow, NEW c, ChannelsInv(c)
  PROVE  /\ toTerm'[c] = toTerm[c] => toTerm'[c] \in Seq(Questions(c) \cup PacketsFor(c)')
         /\ toClient'[c] = toClient[c] => toClient'[c] \in Seq(Answers(c)')
<1>1. Questions(c) \cup PacketsFor(c) \subseteq Questions(c) \cup PacketsFor(c)'
  BY SetsGrow
<1>2. /\ Seq(Questions(c) \cup PacketsFor(c)) \subseteq Seq(Questions(c) \cup PacketsFor(c)')
      /\ Seq(Answers(c)) \subseteq Seq(Answers(c)')
  BY <1>1, SetsGrow, SeqGrows
<1>. QED
  BY <1>2 DEF ChannelsInv

LEMMA RopenKept ==
  ASSUME FilesGrow, NEW c, RopenInv(c), call'[c] = call[c], ropen'[c] = ropen[c]
  PROVE  RopenInv(c)'
<1>1. call'[c] \in Calls(c)'
  BY SetsGrow DEF RopenInv, Calls
<1>. QED
  BY <1>1, SetsGrow DEF RopenInv, Answered

\* A step that is only about c.
Only(c) == /\ OfSources(toTerm)' /\ OfSources(toClient)' /\ OfSources(call)' /\ OfSources(ropen)'
           /\ \A d \in Sources \ {c} : /\ toTerm'[d] = toTerm[d] /\ toClient'[d] = toClient[d]
                                       /\ call'[d] = call[d] /\ ropen'[d] = ropen[d]

LEMMA OnlySource ==
  ASSUME Inv, NEW c \in Sources, Only(c), FilesInv', FilesGrow, SourceInv(c)'
  PROVE  Inv'
<1>1. ASSUME NEW d \in Sources \ {c} PROVE SourceInv(d)'
  <2>1. /\ toTerm'[d] = toTerm[d] /\ toClient'[d] = toClient[d]
        /\ call'[d] = call[d] /\ ropen'[d] = ropen[d]
    BY <1>1 DEF Only
  <2>2. ChannelsInv(d) /\ RopenInv(d)
    BY <1>1 DEF Inv, SourceInv
  <2>3. ChannelsInv(d)'
    BY <2>1, <2>2, ChannelsKept DEF ChannelsInv
  <2>. QED
    BY <2>1, <2>2, <2>3, RopenKept DEF SourceInv
<1>. QED
  BY <1>1 DEF Inv, Only

LEMMA SameFiles == ASSUME FilesInv, UNCHANGED files PROVE FilesInv' /\ FilesGrow
BY DEF FilesInv, FilesGrow

-----------------------------------------------------------------------------
(* The steps of ropen *)

LEMMA PhasesOfExpected == DOMAIN Expected = {"caps", "open", "status", "view"}
BY DEF Expected

LEMMA TransmitWaits ==
  ASSUME Inv, NEW c \in Sources, NEW phase \in DOMAIN Expected, NEW id \in Nat,
         NEW packets \in Seq(PacketsFor(c)), Transmit(c, phase, id, packets)
  PROVE  /\ toTerm'[c] \in Seq(Questions(c) \cup PacketsFor(c))
         /\ call'[c] \in Calls(c) /\ call'[c].phase = phase /\ call'[c].result = "wait"
         /\ OfSources(toTerm)' /\ OfSources(call)'
         /\ \A d \in Sources \ {c} : toTerm'[d] = toTerm[d] /\ call'[d] = call[d]
<1>1. OfSources(toTerm) /\ OfSources(call) /\ toTerm[c] \in Seq(Questions(c) \cup PacketsFor(c))
  BY DEF Inv, SourceInv, ChannelsInv
<1>2. Request(c, phase, id) \in Questions(c)
  BY PhasesOfExpected DEF Request, Questions
<1>3. packets \in Seq(Questions(c) \cup PacketsFor(c))
  BY SeqGrows
<1>4. /\ call' = [call EXCEPT ![c] = [phase |-> phase, result |-> "wait", answer |-> "none",
                                      attempts |-> IF phase = "caps" THEN 1 ELSE Attempts]]
      /\ toTerm' = [toTerm EXCEPT ![c] = @ \o packets \o <<Request(c, phase, id)>>]
  BY DEF Transmit
<1>5. toTerm'[c] = toTerm[c] \o packets \o <<Request(c, phase, id)>>
  BY <1>1, <1>4 DEF OfSources
<1>6. toTerm'[c] \in Seq(Questions(c) \cup PacketsFor(c))
  BY <1>1, <1>2, <1>3, <1>5
<1>7. call'[c] \in Calls(c) /\ call'[c].phase = phase /\ call'[c].result = "wait"
  BY <1>1, <1>4, TransferAssumption DEF OfSources, Calls
<1>. QED
  BY <1>1, <1>4, <1>6, <1>7 DEF OfSources

\* What is needed of a step that transmits a request.
LEMMA TransmitKeeps ==
  ASSUME Inv, NEW c \in Sources, NEW phase \in DOMAIN Expected, NEW id \in Nat,
         NEW packets \in Seq(PacketsFor(c)), Transmit(c, phase, id, packets),
         UNCHANGED <<files, toClient>>,
         OfSources(ropen)', \A d \in Sources \ {c} : ropen'[d] = ropen[d],
         ropen'[c] \in Ropens, ropen'[c].pos = ropen'[c].sent, ropen'[c].sent <= Size[c],
         phase = "status" => ropen'[c].id \in StreamsOf(c)
  PROVE  Inv'
<1>1. FilesInv' /\ FilesGrow
  BY SameFiles DEF Inv
<1>2. ChannelsInv(c)'
  <2>1. toClient[c] \in Seq(Answers(c))
    BY DEF Inv, SourceInv, ChannelsInv
  <2>. QED
    BY <2>1, TransmitWaits DEF ChannelsInv, PacketsFor, StreamsOf, Answers, OpenAcks, Statuses
<1>3. RopenInv(c)'
  <2>1. call'[c] \in Calls(c)'
    BY TransmitWaits DEF Calls, Answers, OpenAcks, StreamsOf, Statuses
  <2>. QED
    BY <2>1, TransmitWaits, PhasesOfExpected DEF RopenInv, Answered, StreamsOf
<1>4. Only(c)
  BY TransmitWaits DEF Only, Inv, OfSources
<1>. QED
  BY <1>1, <1>2, <1>3, <1>4, OnlySource DEF SourceInv

\* What is needed of a step of c that leaves the streams alone.
LEMMA CalmKeeps ==
  ASSUME Inv, NEW c \in Sources, Only(c), UNCHANGED files,
         toTerm'[c] \in Seq(Questions(c) \cup PacketsFor(c)), toClient'[c] \in Seq(Answers(c)),
         call'[c] \in Calls(c), ropen'[c] \in Ropens,
         ropen'[c].pos = ropen'[c].sent, ropen'[c].sent <= Size[c],
         call'[c].phase \in {"data", "status"} => ropen'[c].id \in StreamsOf(c),
         call'[c].phase = "open" /\ call'[c].result = "none" => call'[c].answer \in OpenAcks(c),
         call'[c].phase = "status" /\ call'[c].result = "none" =>
           call'[c].answer \in Statuses /\ call'[c].answer.id = ropen'[c].id
  PROVE  Inv'
<1>1. FilesInv' /\ FilesGrow
  BY SameFiles DEF Inv
<1>2. /\ StreamsOf(c)' = StreamsOf(c) /\ Statuses' = Statuses
  BY DEF StreamsOf, Statuses
<1>3. PacketsFor(c)' = PacketsFor(c) /\ OpenAcks(c)' = OpenAcks(c)
  BY <1>2 DEF PacketsFor, OpenAcks
<1>4. Answers(c)' = Answers(c)
  BY <1>2, <1>3 DEF Answers
<1>5. ChannelsInv(c)'
  BY <1>3, <1>4 DEF ChannelsInv
<1>6. RopenInv(c)'
  BY <1>2, <1>3, <1>4 DEF RopenInv, Answered, Calls
<1>. QED
  BY <1>1, <1>5, <1>6, OnlySource DEF SourceInv

LEMMA StartKeeps == ASSUME Inv, NEW c \in Sources, Start(c) PROVE Inv'
<1>1. OfSources(ropen)
  BY DEF Inv
<1>2. /\ ropen'[c] = [sent |-> 0, pos |-> 0, eof |-> FALSE, packets |-> 0,
                      limit |-> PacketLimit, id |-> 0]
      /\ OfSources(ropen)' /\ \A d \in Sources \ {c} : ropen'[d] = ropen[d]
  BY <1>1 DEF Start, OfSources
<1>3. ropen'[c] \in Ropens /\ ropen'[c].pos = ropen'[c].sent /\ ropen'[c].sent <= Size[c]
  BY <1>2, TransferAssumption DEF Ropens
<1>4. "caps" \in DOMAIN Expected /\ << >> \in Seq(PacketsFor(c))
  BY PhasesOfExpected
<1>. QED
  BY <1>2, <1>3, <1>4, TransmitKeeps DEF Start, filesVars

LEMMA OpenLocalFileKeeps == ASSUME Inv, NEW c \in Sources, OpenLocalFile(c) PROVE Inv'
<1>1. /\ OfSources(ropen) /\ ropen[c] \in Ropens
      /\ ropen[c].pos = ropen[c].sent /\ ropen[c].sent <= Size[c]
  BY DEF Inv, SourceInv, RopenInv
<1>2. "open" \in DOMAIN Expected /\ << >> \in Seq(PacketsFor(c))
  BY PhasesOfExpected
<1>. QED
  BY <1>1, <1>2, TransmitKeeps DEF OpenLocalFile, filesVars, OfSources

LEMMA StreamsAreNat == ASSUME Inv, NEW c PROVE StreamsOf(c) \subseteq Nat
BY TransferAssumption DEF Inv, FilesInv, StreamsOf

LEMMA BeginTransferKeeps == ASSUME Inv, NEW c \in Sources, BeginTransfer(c) PROVE Inv'
<1>. DEFINE id == call[c].answer.id
<1>1. call[c].answer \in OpenAcks(c) /\ call[c] \in Calls(c) /\ ropen[c] \in Ropens
      /\ ropen[c].pos = ropen[c].sent /\ ropen[c].sent <= Size[c]
  BY DEF Inv, SourceInv, RopenInv, BeginTransfer
<1>2. id \in StreamsOf(c) /\ id \in Nat
  BY <1>1, StreamsAreNat DEF OpenAcks
<1>3. OfSources(ropen) /\ ropen' = [ropen EXCEPT ![c].id = id]
  BY DEF Inv, BeginTransfer
<1>4. /\ ropen'[c] = [ropen[c] EXCEPT !.id = id]
      /\ OfSources(ropen)' /\ \A d \in Sources \ {c} : ropen'[d] = ropen[d]
  BY <1>3 DEF OfSources
<1>5. /\ ropen'[c] \in Ropens /\ ropen'[c].id = id
      /\ ropen'[c].pos = ropen'[c].sent /\ ropen'[c].sent <= Size[c]
  BY <1>1, <1>2, <1>4 DEF Ropens
<1>6. CASE Size[c] = 0
  <2>1. Transmit(c, "view", id, << >>) /\ UNCHANGED <<files, toClient>>
    BY <1>6 DEF BeginTransfer, filesVars
  <2>2. "view" \in DOMAIN Expected /\ << >> \in Seq(PacketsFor(c))
    BY PhasesOfExpected
  <2>. HIDE DEF id
  <2>. QED
    BY <1>2, <1>4, <1>5, <2>1, <2>2, TransmitKeeps
<1>7. CASE Size[c] # 0
  <2>1. /\ call' = [call EXCEPT ![c].phase = "data"] /\ UNCHANGED <<files, toTerm, toClient>>
    BY <1>7 DEF BeginTransfer, filesVars
  <2>2. /\ OfSources(call) /\ OfSources(toTerm) /\ OfSources(toClient)
        /\ toTerm[c] \in Seq(Questions(c) \cup PacketsFor(c)) /\ toClient[c] \in Seq(Answers(c))
    BY DEF Inv, SourceInv, ChannelsInv
  <2>3. call'[c] = [call[c] EXCEPT !.phase = "data"] /\ OfSources(call)'
        /\ \A d \in Sources \ {c} : call'[d] = call[d]
    BY <2>1, <2>2 DEF OfSources
  <2>4. call'[c] \in Calls(c) /\ call'[c].phase = "data"
    BY <1>1, <2>3 DEF Calls
  <2>5. Only(c)
    BY <1>4, <2>1, <2>2, <2>3 DEF Only, OfSources
  <2>. HIDE DEF id
  <2>. QED
    BY <1>2, <1>5, <2>1, <2>2, <2>4, <2>5, CalmKeeps
<1>. QED
  BY <1>6, <1>7

LEMMA MinOfTwo ==
  ASSUME NEW a \in Nat, NEW b \in Nat
  PROVE  Min({a, b}) \in Nat /\ Min({a, b}) <= a /\ Min({a, b}) <= b
<1>1. CASE a <= b
  <2>1. a \in {a, b} /\ \A y \in {a, b} : a <= y
    BY <1>1
  <2>2. Min({a, b}) \in {a, b} /\ \A y \in {a, b} : Min({a, b}) <= y
    BY <2>1 DEF Min
  <2>. QED
    BY <2>2
<1>2. CASE b <= a
  <2>1. b \in {a, b} /\ \A y \in {a, b} : b <= y
    BY <1>2
  <2>2. Min({a, b}) \in {a, b} /\ \A y \in {a, b} : Min({a, b}) <= y
    BY <2>1 DEF Min
  <2>. QED
    BY <2>2
<1>. QED
  BY <1>1, <1>2

LEMMA SendPacketKeeps == ASSUME Inv, NEW c \in Sources, SendPacket(c) PROVE Inv'
<1>. DEFINE r    == ropen[c]
            len  == IF r.eof THEN 0 ELSE Min({PacketSize, Size[c] - r.pos})
            data == [kind |-> "Data", id |-> r.id, packet |-> r.sent, from |-> r.pos, len |-> len]
            sent == r.sent + len
            asks == AsksStatus(c, r, sent)
            next == [r EXCEPT !.sent = sent, !.pos = r.pos + len,
                              !.eof = r.eof \/ len < PacketSize,
                              !.packets = IF asks THEN 0 ELSE r.packets + 1]
<1>1. /\ OfSources(ropen) /\ OfSources(call) /\ OfSources(toTerm) /\ OfSources(toClient)
      /\ r \in Ropens /\ r.pos = r.sent /\ r.sent <= Size[c]
      /\ call[c] \in Calls(c) /\ call[c].phase = "data" /\ r.id \in StreamsOf(c)
      /\ toTerm[c] \in Seq(Questions(c) \cup PacketsFor(c)) /\ toClient[c] \in Seq(Answers(c))
  BY DEF Inv, SourceInv, RopenInv, ChannelsInv, SendPacket
<1>2. Size[c] \in Nat /\ PacketSize \in Nat /\ r.pos \in Nat /\ r.sent \in Nat
      /\ r.packets \in Int /\ r.eof \in BOOLEAN /\ r.id \in Nat
  BY <1>1, TransferAssumption DEF Ropens
<1>3. len \in Nat /\ len <= Size[c] - r.pos
  <2>. DEFINE left == Size[c] - r.pos
  <2>1. left \in Nat
    BY <1>1, <1>2
  <2>. HIDE DEF left
  <2>2. Min({PacketSize, left}) \in Nat /\ Min({PacketSize, left}) <= left
    BY <1>2, <2>1, MinOfTwo
  <2>3. len = 0 \/ len = Min({PacketSize, left})
    BY DEF left
  <2>. HIDE DEF len
  <2>4. len \in Nat /\ len <= left
    BY <2>1, <2>2, <2>3
  <2>. QED
    BY <2>4 DEF left
<1>. HIDE DEF len
<1>4. data \in PacketsFor(c) /\ sent \in Nat /\ sent <= Size[c]
  BY <1>1, <1>2, <1>3 DEF PacketsFor
<1>5. ropen' = [ropen EXCEPT ![c] = next] /\ UNCHANGED <<files, toClient>>
      /\ (IF asks THEN Transmit(c, "status", r.id, <<data>>)
                  ELSE toTerm' = [toTerm EXCEPT ![c] = Append(@, data)] /\ UNCHANGED call)
  BY DEF SendPacket, filesVars, len
<1>6. asks \in BOOLEAN
  BY DEF AsksStatus
<1>. HIDE DEF asks
<1>7. next \in Ropens /\ next.pos = next.sent /\ next.sent <= Size[c] /\ next.id = r.id
  <2>1. next.sent = sent /\ next.pos = r.pos + len /\ next.id = r.id
    BY <1>1 DEF Ropens
  <2>2. next.eof \in BOOLEAN /\ next.packets \in Int
    BY <1>1, <1>2 DEF Ropens
  <2>. QED
    BY <1>1, <1>2, <1>3, <1>4, <2>1, <2>2 DEF Ropens
<1>8. /\ ropen'[c] = next /\ OfSources(ropen)'
      /\ \A d \in Sources \ {c} : ropen'[d] = ropen[d]
  BY <1>1, <1>5 DEF OfSources
<1>. HIDE DEF next, sent, r, data
<1>9. CASE asks
  <2>1. "status" \in DOMAIN Expected /\ <<data>> \in Seq(PacketsFor(c))
    BY <1>4, PhasesOfExpected
  <2>. QED
    BY <1>1, <1>2, <1>5, <1>7, <1>8, <1>9, <2>1, TransmitKeeps
<1>10. CASE ~ asks
  <2>1. toTerm' = [toTerm EXCEPT ![c] = Append(@, data)] /\ UNCHANGED call
    BY <1>5, <1>10
  <2>2. toTerm'[c] = Append(toTerm[c], data) /\ OfSources(toTerm)'
        /\ \A d \in Sources \ {c} : toTerm'[d] = toTerm[d]
    BY <1>1, <2>1 DEF OfSources
  <2>3. toTerm'[c] \in Seq(Questions(c) \cup PacketsFor(c))
    BY <1>1, <1>4, <2>2
  <2>4. Only(c)
    BY <1>1, <1>5, <1>8, <2>1, <2>2 DEF Only, OfSources
  <2>. QED
    BY <1>1, <1>5, <1>7, <1>8, <2>1, <2>3, <2>4, CalmKeeps
<1>. QED
  BY <1>9, <1>10

LEMMA CheckTransferStatusKeeps == ASSUME Inv, NEW c \in Sources, CheckTransferStatus(c) PROVE Inv'
<1>. DEFINE received == call[c].answer.received
            r == IF received = ropen[c].sent THEN Confirmed(ropen[c])
                                             ELSE Rewound(ropen[c], received)
<1>1. /\ OfSources(ropen) /\ OfSources(call) /\ OfSources(toTerm) /\ OfSources(toClient)
      /\ ropen[c] \in Ropens /\ ropen[c].pos = ropen[c].sent /\ ropen[c].sent <= Size[c]
      /\ call[c] \in Calls(c) /\ call[c].phase = "status" /\ ropen[c].id \in StreamsOf(c)
      /\ call[c].answer \in Statuses /\ call[c].answer.id = ropen[c].id
      /\ toTerm[c] \in Seq(Questions(c) \cup PacketsFor(c)) /\ toClient[c] \in Seq(Answers(c))
  BY DEF Inv, SourceInv, RopenInv, ChannelsInv, CheckTransferStatus, Answered
<1>2. received \in Nat /\ received <= Size[c]
  BY <1>1 DEF Statuses, StreamsOf
<1>. HIDE DEF received
<1>3. r \in Ropens /\ r.pos = r.sent /\ r.sent <= Size[c] /\ r.id = ropen[c].id
  <2>1. /\ ropen[c].sent \in Nat /\ ropen[c].limit \in Int
        /\ MinLimit \in Nat /\ PacketLimit \in Nat /\ Size[c] \in Nat
    BY <1>1, TransferAssumption DEF Ropens
  <2>2. CASE received = ropen[c].sent
    <3>. DEFINE limit == IF ropen[c].limit < PacketLimit THEN ropen[c].limit * 4
                         ELSE ropen[c].limit
    <3>1. r = [ropen[c] EXCEPT !.limit = limit]
      BY <2>2 DEF Confirmed
    <3>2. limit \in Int
      BY <2>1
    <3>. HIDE DEF r, limit
    <3>. QED
      BY <1>1, <3>1, <3>2 DEF Ropens
  <2>3. CASE received # ropen[c].sent
    <3>. DEFINE limit == IF ropen[c].limit > MinLimit THEN ropen[c].limit \div 2
                         ELSE ropen[c].limit
    <3>1. r = [ropen[c] EXCEPT !.sent = received, !.pos = received, !.eof = FALSE,
                               !.limit = limit]
      BY <2>3 DEF Rewound
    <3>2. limit \in Int
      BY <2>1
    <3>. HIDE DEF r, limit
    <3>. QED
      BY <1>1, <1>2, <3>1, <3>2 DEF Ropens
  <2>. QED
    BY <2>2, <2>3
<1>4. ropen' = [ropen EXCEPT ![c] = r] /\ UNCHANGED <<files, toClient>>
      /\ (IF r.sent = Size[c] THEN Transmit(c, "view", r.id, << >>)
          ELSE call' = [call EXCEPT ![c].phase = "data"] /\ UNCHANGED toTerm)
  BY DEF CheckTransferStatus, filesVars, received
<1>. HIDE DEF r
<1>5. /\ ropen'[c] = r /\ OfSources(ropen)'
      /\ \A d \in Sources \ {c} : ropen'[d] = ropen[d]
  BY <1>1, <1>4 DEF OfSources
<1>6. CASE r.sent = Size[c]
  <2>1. "view" \in DOMAIN Expected /\ << >> \in Seq(PacketsFor(c)) /\ r.id \in Nat
    BY <1>3, PhasesOfExpected DEF Ropens
  <2>. QED
    BY <1>3, <1>4, <1>5, <1>6, <2>1, TransmitKeeps
<1>7. CASE r.sent # Size[c]
  <2>1. call' = [call EXCEPT ![c].phase = "data"] /\ UNCHANGED toTerm
    BY <1>4, <1>7
  <2>2. call'[c] = [call[c] EXCEPT !.phase = "data"] /\ OfSources(call)'
        /\ \A d \in Sources \ {c} : call'[d] = call[d]
    BY <1>1, <2>1 DEF OfSources
  <2>3. call'[c] \in Calls(c) /\ call'[c].phase = "data"
    BY <1>1, <2>2 DEF Calls
  <2>4. Only(c)
    BY <1>1, <1>4, <1>5, <2>1, <2>2 DEF Only, OfSources
  <2>. QED
    BY <1>1, <1>3, <1>4, <1>5, <2>1, <2>3, <2>4, CalmKeeps
<1>. QED
  BY <1>6, <1>7

\* What is needed of a step that changes only how far the call of c is: it ends.
LEMMA EndKeeps ==
  ASSUME Inv, NEW c \in Sources, NEW r \in Calls(c), call' = [call EXCEPT ![c] = r],
         r.phase \in {"done", "failed"}, UNCHANGED <<files, ropen, toTerm, toClient>>
  PROVE  Inv'
<1>1. /\ OfSources(ropen) /\ OfSources(call) /\ OfSources(toTerm) /\ OfSources(toClient)
      /\ ropen[c] \in Ropens /\ ropen[c].pos = ropen[c].sent /\ ropen[c].sent <= Size[c]
      /\ toTerm[c] \in Seq(Questions(c) \cup PacketsFor(c)) /\ toClient[c] \in Seq(Answers(c))
  BY DEF Inv, SourceInv, RopenInv, ChannelsInv
<1>2. call'[c] = r /\ Only(c)
  BY <1>1 DEF Only, OfSources
<1>. QED
  BY <1>1, <1>2, CalmKeeps

LEMMA EndsKeep ==
  ASSUME Inv, NEW c \in Sources, Finish(c) \/ GiveUp(c) \/ Interrupted(c)
  PROVE  Inv'
<1>1. call[c] \in Calls(c)
  BY DEF Inv, SourceInv, RopenInv
<1>2. CASE Finish(c)
  <2>1. call' = [call EXCEPT ![c] = [call[c] EXCEPT !.phase = "done"]]
        /\ UNCHANGED <<files, ropen, toTerm, toClient>>
    BY <1>2 DEF Finish, filesVars
  <2>2. [call[c] EXCEPT !.phase = "done"] \in Calls(c) /\ [call[c] EXCEPT !.phase = "done"].phase = "done"
    BY <1>1 DEF Calls
  <2>. QED
    BY <2>1, <2>2, EndKeeps
<1>3. CASE GiveUp(c)
  <2>. DEFINE k == [call[c] EXCEPT !.attempts = 0]
              r == [k EXCEPT !.phase = "failed"]
  <2>1. call' = [call EXCEPT ![c] = [call[c] EXCEPT !.attempts = 0, !.phase = "failed"]]
        /\ UNCHANGED <<files, ropen, toTerm, toClient>>
    BY <1>3 DEF GiveUp, filesVars
  <2>2. k \in Calls(c)
    BY <1>1 DEF Calls
  <2>3. [call[c] EXCEPT !.attempts = 0, !.phase = "failed"] = r
    BY <1>1 DEF Calls
  <2>. HIDE DEF k
  <2>4. r \in Calls(c) /\ r.phase = "failed"
    BY <2>2 DEF Calls
  <2>. HIDE DEF r
  <2>. QED
    BY <2>1, <2>3, <2>4, EndKeeps
<1>4. CASE Interrupted(c)
  <2>1. call' = [call EXCEPT ![c] = [call[c] EXCEPT !.phase = "failed"]]
        /\ UNCHANGED <<files, ropen, toTerm, toClient>>
    BY <1>4 DEF Interrupted, filesVars
  <2>2. [call[c] EXCEPT !.phase = "failed"] \in Calls(c) /\ [call[c] EXCEPT !.phase = "failed"].phase = "failed"
    BY <1>1 DEF Calls
  <2>. QED
    BY <2>1, <2>2, EndKeeps
<1>. QED
  BY <1>2, <1>3, <1>4

\* What is needed of a step that changes only what is on its way.
LEMMA ChannelKeeps ==
  ASSUME Inv, NEW c \in Sources, UNCHANGED <<files, ropen>>, OfSources(call)',
         OfSources(toTerm)', OfSources(toClient)',
         toTerm'[c] \in Seq(Questions(c) \cup PacketsFor(c)), toClient'[c] \in Seq(Answers(c)),
         \A d \in Sources \ {c} : toTerm'[d] = toTerm[d] /\ toClient'[d] = toClient[d] /\ call'[d] = call[d],
         call'[c] \in Calls(c), call'[c].phase = call[c].phase, call'[c].result = call[c].result,
         call'[c].answer = call[c].answer
  PROVE  Inv'
<1>1. /\ OfSources(ropen) /\ RopenInv(c)
  BY DEF Inv, SourceInv
<1>2. Only(c)
  BY <1>1 DEF Only, OfSources
<1>. QED
  BY <1>1, <1>2, CalmKeeps DEF RopenInv, Answered

LEMMA ResendKeeps == ASSUME Inv, NEW c \in Sources, Resend(c) PROVE Inv'
<1>. DEFINE q == Request(c, call[c].phase, ropen[c].id)
<1>1. /\ OfSources(call) /\ OfSources(toTerm) /\ OfSources(toClient)
      /\ ropen[c] \in Ropens /\ call[c] \in Calls(c)
      /\ toTerm[c] \in Seq(Questions(c) \cup PacketsFor(c)) /\ toClient[c] \in Seq(Answers(c))
  BY DEF Inv, SourceInv, RopenInv, ChannelsInv
<1>2. call[c].phase \in DOMAIN Expected
  BY DEF Resend, TimedOut, Waiting
<1>3. q \in Questions(c)
  BY <1>1, <1>2, PhasesOfExpected DEF Request, Questions, Ropens
<1>4. /\ call' = [call EXCEPT ![c].attempts = @ - 1]
      /\ toTerm' = [toTerm EXCEPT ![c] = Append(@, q)]
      /\ UNCHANGED <<files, ropen, toClient>>
  BY DEF Resend, filesVars
<1>. HIDE DEF q
<1>5. toTerm'[c] = Append(toTerm[c], q) /\ OfSources(toTerm)'
      /\ \A d \in Sources \ {c} : toTerm'[d] = toTerm[d]
  BY <1>1, <1>4 DEF OfSources
<1>6. toTerm'[c] \in Seq(Questions(c) \cup PacketsFor(c))
  BY <1>1, <1>3, <1>5
<1>7. call'[c] = [call[c] EXCEPT !.attempts = call[c].attempts - 1] /\ OfSources(call)'
      /\ \A d \in Sources \ {c} : call'[d] = call[d]
  BY <1>1, <1>4 DEF OfSources
<1>8. call[c].attempts - 1 \in Int
  BY <1>1 DEF Calls
<1>9. call'[c] \in Calls(c) /\ call'[c].phase = call[c].phase /\ call'[c].result = call[c].result
      /\ call'[c].answer = call[c].answer
  BY <1>1, <1>7, <1>8 DEF Calls
<1>. QED
  BY <1>1, <1>4, <1>5, <1>6, <1>7, <1>9, ChannelKeeps DEF OfSources

\* What a channel loses leaves the rest as it was.
LEMMA LossKeeps ==
  ASSUME Inv, NEW c \in Sources, LoseRequest(c) \/ LoseAnswer(c) \/ ShellReads(c)
  PROVE  Inv'
<1>1. /\ OfSources(call) /\ OfSources(toTerm) /\ OfSources(toClient) /\ call[c] \in Calls(c)
      /\ toTerm[c] \in Seq(Questions(c) \cup PacketsFor(c)) /\ toClient[c] \in Seq(Answers(c))
  BY DEF Inv, SourceInv, RopenInv, ChannelsInv
<1>2. CASE LoseRequest(c)
  <2>1. toTerm[c] # << >> /\ toTerm' = [toTerm EXCEPT ![c] = Tail(@)]
        /\ UNCHANGED <<files, call, ropen, toClient>>
    BY <1>2 DEF LoseRequest, filesVars
  <2>2. toTerm'[c] = Tail(toTerm[c]) /\ OfSources(toTerm)'
        /\ \A d \in Sources \ {c} : toTerm'[d] = toTerm[d]
    BY <1>1, <2>1 DEF OfSources
  <2>3. toTerm'[c] \in Seq(Questions(c) \cup PacketsFor(c))
    BY <1>1, <2>1, <2>2
  <2>. QED
    BY <1>1, <2>1, <2>2, <2>3, ChannelKeeps DEF OfSources
<1>3. CASE LoseAnswer(c) \/ ShellReads(c)
  <2>1. toClient[c] # << >> /\ toClient' = [toClient EXCEPT ![c] = Tail(@)]
        /\ UNCHANGED <<files, call, ropen, toTerm>>
    BY <1>3 DEF LoseAnswer, ShellReads, filesVars
  <2>2. toClient'[c] = Tail(toClient[c]) /\ OfSources(toClient)'
        /\ \A d \in Sources \ {c} : toClient'[d] = toClient[d]
    BY <1>1, <2>1 DEF OfSources
  <2>3. toClient'[c] \in Seq(Answers(c))
    BY <1>1, <2>1, <2>2
  <2>. QED
    BY <1>1, <2>1, <2>2, <2>3, ChannelKeeps DEF OfSources
<1>. QED
  BY <1>2, <1>3

LEMMA CloseViewerKeeps == ASSUME Inv, NEW path, CloseViewer(path) PROVE Inv'
<1>1. FilesInv' /\ FilesGrow
  BY SameFiles DEF Inv, CloseViewer, RF!CloseViewer
<1>2. UNCHANGED <<files, call, ropen, toTerm, toClient>>
  BY DEF CloseViewer, RF!CloseViewer
<1>3. ASSUME NEW c \in Sources PROVE SourceInv(c)'
  <2>1. ChannelsInv(c) /\ RopenInv(c)
    BY DEF Inv, SourceInv
  <2>2. ChannelsInv(c)'
    BY <1>1, <1>2, <2>1, ChannelsKept DEF ChannelsInv
  <2>. QED
    BY <1>1, <1>2, <2>1, <2>2, RopenKept DEF SourceInv
<1>. QED
  BY <1>1, <1>2, <1>3 DEF Inv, OfSources

LEMMA ReceiveKeeps == ASSUME Inv, NEW c \in Sources, Receive(c) PROVE Inv'
<1>. DEFINE m == Head(toClient[c])
            k == call[c]
            got == [k EXCEPT !.answer = m, !.result = IF m.kind = "Nack" THEN "nack" ELSE "none"]
            died == [k EXCEPT !.phase = "crashed"]
<1>1. /\ OfSources(call) /\ OfSources(toTerm) /\ OfSources(toClient) /\ OfSources(ropen)
      /\ k \in Calls(c) /\ RopenInv(c)
      /\ toTerm[c] \in Seq(Questions(c) \cup PacketsFor(c)) /\ toClient[c] \in Seq(Answers(c))
  BY DEF Inv, SourceInv, RopenInv, ChannelsInv
<1>2. /\ toClient[c] # << >> /\ Running(c)
      /\ call' = [call EXCEPT ![c] = IF Matches(c, m) THEN got ELSE died]
      /\ toClient' = [toClient EXCEPT ![c] = Tail(@)]
      /\ UNCHANGED <<files, ropen, toTerm>>
  BY DEF Receive, filesVars
<1>3. m \in Answers(c)
  BY <1>1, <1>2
<1>4. /\ toClient'[c] = Tail(toClient[c]) /\ OfSources(toClient)' /\ OfSources(call)'
      /\ \A d \in Sources \ {c} : toClient'[d] = toClient[d] /\ call'[d] = call[d]
      /\ call'[c] = (IF Matches(c, m) THEN got ELSE died)
  BY <1>1, <1>2 DEF OfSources
<1>5. toClient'[c] \in Seq(Answers(c)) /\ Only(c)
  BY <1>1, <1>2, <1>4 DEF Only, OfSources
<1>6. got \in Calls(c) /\ got.phase = k.phase /\ got.answer = m
      /\ got.result = IF m.kind = "Nack" THEN "nack" ELSE "none"
  BY <1>1, <1>3 DEF Calls
<1>7. died \in Calls(c) /\ died.phase = "crashed"
  BY <1>1 DEF Calls
<1>. HIDE DEF m, got, died
<1>8. CASE Matches(c, m)
  <2>1. call'[c] = got
    BY <1>4, <1>8
  <2>2. ASSUME k.phase = "open", got.result = "none" PROVE m \in OpenAcks(c)
    <3>1. m.kind # "Nack"
      BY <1>6, <2>2
    <3>2. m.kind = "Ack" /\ m.request = [kind |-> "OpenFileTransfer", source |-> c]
      BY <1>8, <2>2, <3>1 DEF Matches, Expected, Request
    <3>. QED
      BY <1>3, <3>2 DEF Answers, OpenAcks, ViewAcks, Statuses
  <2>3. ASSUME k.phase = "status", got.result = "none" PROVE m \in Statuses /\ m.id = ropen[c].id
    <3>1. m.kind # "Nack"
      BY <1>6, <2>3
    <3>2. m.kind = "TransferStatus" /\ m.id = ropen[c].id
      BY <1>8, <2>3, <3>1 DEF Matches, Expected
    <3>. QED
      BY <1>3, <3>2 DEF Answers, OpenAcks, ViewAcks, Statuses
  <2>4. /\ ropen'[c] \in Ropens /\ ropen'[c].pos = ropen'[c].sent /\ ropen'[c].sent <= Size[c]
        /\ k.phase \in {"data", "status"} => ropen'[c].id \in StreamsOf(c)
    BY <1>1, <1>2 DEF RopenInv
  <2>. QED
    BY <1>1, <1>2, <1>5, <1>6, <2>1, <2>2, <2>3, <2>4, CalmKeeps
<1>9. CASE ~ Matches(c, m)
  <2>1. call'[c] = died
    BY <1>4, <1>9
  <2>. QED
    BY <1>1, <1>2, <1>5, <1>7, <2>1, CalmKeeps DEF RopenInv
<1>. QED
  BY <1>8, <1>9

-----------------------------------------------------------------------------
(* The steps of the terminal: each is one of RemoteFiles, or none *)

LEMMA OpenOfFiles ==
  ASSUME FilesInv, NEW s \in Sources, NEW id \in 1..MaxOpens, RF!OpenFileTransfer(s, id)
  PROVE  FilesInv' /\ FilesGrow /\ id \in StreamsOf(s)'
<1>1. PICK path \in RF!Paths : files' = [k \in DOMAIN files \cup {id} |->
                                           IF k = id THEN RF!Opened(s, id, path) ELSE files[k]]
  BY DEF RF!OpenFileTransfer
<1>2. RF!Opened(s, id, path) = [source |-> s, received |-> 0, path |-> path, isOpen |-> TRUE]
  BY DEF RF!Opened
<1>3. id \in DOMAIN files => files[id].source = s
  BY DEF RF!OpenFileTransfer, RF!FileOf, RF!StreamsOf, RF!IsNewId
<1>4. DOMAIN files' = DOMAIN files \cup {id} /\ files'[id] = RF!Opened(s, id, path)
      /\ \A k \in DOMAIN files \ {id} : files'[k] = files[k]
  BY <1>1
<1>5. /\ files'[id] \in [source : Sources, received : Nat, path : RF!Paths, isOpen : BOOLEAN]
      /\ files'[id].source = s /\ files'[id].received = 0 /\ Size[s] \in Nat
  BY <1>2, <1>4, TransferAssumption
<1>6. FilesInv'
  <2>1. DOMAIN files' \subseteq 1..MaxOpens
    BY <1>4 DEF FilesInv
  <2>2. ASSUME NEW k \in DOMAIN files'
        PROVE  /\ files'[k] \in [source : Sources, received : Nat, path : RF!Paths, isOpen : BOOLEAN]
               /\ files'[k].received <= Size[files'[k].source]
    <3>1. CASE k = id
      BY <1>5, <3>1
    <3>2. CASE k # id
      BY <1>4, <2>2, <3>2 DEF FilesInv
    <3>. QED
      BY <3>1, <3>2
  <2>. QED
    BY <2>1, <2>2 DEF FilesInv, RF!Paths, RF!LocalPath
<1>. QED
  BY <1>3, <1>4, <1>5, <1>6 DEF FilesGrow, StreamsOf

LEMMA RefusalOfFiles ==
  ASSUME FilesInv, NEW s \in Sources, NEW id \in 1..MaxOpens, RF!OpenRefused(s, id)
  PROVE  FilesInv' /\ FilesGrow /\ id \in StreamsOf(s)'
<1>1. PICK n \in 1..MaxOpens :
        files' = [k \in DOMAIN files \cup {id} |->
                    IF k # id THEN files[k]
                    ELSE [source |-> s, received |-> 0,
                          path |-> RF!LocalPath(s, n), isOpen |-> FALSE]]
  BY DEF RF!OpenRefused
<1>2. RF!LocalPath(s, n) \in RF!Paths
  BY TransferAssumption DEF RF!Paths
<1>3. id \in DOMAIN files => files[id].source = s
  BY DEF RF!OpenRefused, RF!FileOf, RF!StreamsOf, RF!IsNewId
<1>. DEFINE path == RF!LocalPath(s, n)
            f == [source |-> s, received |-> 0, path |-> path, isOpen |-> FALSE]
<1>. HIDE DEF path
<1>4. DOMAIN files' = DOMAIN files \cup {id} /\ files'[id] = f
      /\ \A k \in DOMAIN files \ {id} : files'[k] = files[k]
  BY <1>1 DEF path
<1>5. /\ files'[id] \in [source : Sources, received : Nat, path : RF!Paths, isOpen : BOOLEAN]
      /\ files'[id].source = s /\ files'[id].received = 0 /\ Size[s] \in Nat
  BY <1>2, <1>4, TransferAssumption DEF path
<1>6. FilesInv'
  <2>1. DOMAIN files' \subseteq 1..MaxOpens
    BY <1>4 DEF FilesInv
  <2>2. ASSUME NEW k \in DOMAIN files'
        PROVE  /\ files'[k] \in [source : Sources, received : Nat, path : RF!Paths, isOpen : BOOLEAN]
               /\ files'[k].received <= Size[files'[k].source]
    <3>1. CASE k = id
      BY <1>5, <3>1
    <3>2. CASE k # id
      BY <1>4, <2>2, <3>2 DEF FilesInv
    <3>. QED
      BY <3>1, <3>2
  <2>. QED
    BY <2>1, <2>2 DEF FilesInv, RF!Paths, RF!LocalPath
<1>. QED
  BY <1>3, <1>4, <1>5, <1>6 DEF FilesGrow, StreamsOf

LEMMA TransferOfFiles ==
  ASSUME FilesInv, NEW c \in Sources, NEW m \in PacketsFor(c), RF!Transfer(m)
  PROVE  FilesInv' /\ FilesGrow
<1>1. /\ m.id \in DOMAIN files /\ files[m.id].source = c /\ m.packet \in Nat /\ m.len \in Nat
      /\ m.packet + m.len <= Size[c] /\ Size[c] \in Nat
  BY TransferAssumption DEF PacketsFor, StreamsOf
<1>2. CASE files[m.id].received # m.packet
  BY <1>2, SameFiles DEF RF!Transfer, RF!vars
<1>3. CASE files[m.id].received = m.packet
  <2>. DEFINE f == files[m.id]
              total == f.received + m.len
              g == [f EXCEPT !.received = total, !.isOpen = f.isOpen /\ total # Size[f.source]]
  <2>1. f \in [source : Sources, received : Nat, path : RF!Paths, isOpen : BOOLEAN]
    BY <1>1 DEF FilesInv
  <2>2. files' = [files EXCEPT ![m.id] = g]
    BY <1>1, <1>3, <2>1 DEF RF!Transfer
  <2>3. total \in Nat /\ total <= Size[c]
    BY <1>1, <1>3
  <2>. HIDE DEF total
  <2>4. g \in [source : Sources, received : Nat, path : RF!Paths, isOpen : BOOLEAN]
        /\ g.source = c /\ g.received = total
    BY <1>1, <2>1, <2>3
  <2>. HIDE DEF g
  <2>5. FilesInv'
    <3>1. DOMAIN files' = DOMAIN files /\ files'[m.id] = g
          /\ \A k \in DOMAIN files \ {m.id} : files'[k] = files[k]
      BY <1>1, <2>2
    <3>2. ASSUME NEW k \in DOMAIN files'
          PROVE  /\ files'[k] \in [source : Sources, received : Nat, path : RF!Paths, isOpen : BOOLEAN]
                 /\ files'[k].received <= Size[files'[k].source]
      <4>1. CASE k = m.id
        BY <2>3, <2>4, <3>1, <4>1
      <4>2. CASE k # m.id
        BY <3>1, <3>2, <4>2 DEF FilesInv
      <4>. QED
        BY <4>1, <4>2
    <3>. QED
      BY <3>1, <3>2 DEF FilesInv, RF!Paths, RF!LocalPath
  <2>. QED
    BY <1>1, <2>2, <2>4, <2>5 DEF FilesGrow
<1>. QED
  BY <1>2, <1>3

\* What is needed of a step that serves a request.
LEMMA ServedKeeps ==
  ASSUME Inv, NEW c \in Sources, FilesInv', FilesGrow, UNCHANGED <<call, ropen>>,
         toTerm[c] # << >>, toTerm' = [toTerm EXCEPT ![c] = Tail(@)],
         \/ UNCHANGED toClient
         \/ \E a \in Answers(c)' : toClient' = [toClient EXCEPT ![c] = Append(@, a)]
  PROVE  Inv'
<1>1. /\ OfSources(call) /\ OfSources(toTerm) /\ OfSources(toClient) /\ OfSources(ropen)
      /\ ChannelsInv(c) /\ RopenInv(c)
  BY DEF Inv, SourceInv
<1>2. toTerm'[c] = Tail(toTerm[c]) /\ OfSources(toTerm)' /\ OfSources(toClient)'
      /\ \A d \in Sources \ {c} : toTerm'[d] = toTerm[d] /\ toClient'[d] = toClient[d]
  BY <1>1 DEF OfSources
<1>3. /\ toTerm[c] \in Seq(Questions(c) \cup PacketsFor(c)')
      /\ toClient[c] \in Seq(Answers(c)')
  <2>1. /\ Questions(c) \cup PacketsFor(c) \subseteq Questions(c) \cup PacketsFor(c)'
        /\ Answers(c) \subseteq Answers(c)'
    BY SetsGrow
  <2>. QED
    BY <1>1, <2>1, SeqGrows DEF ChannelsInv
<1>4. toTerm'[c] \in Seq(Questions(c) \cup PacketsFor(c)')
  BY <1>2, <1>3
<1>5. toClient'[c] \in Seq(Answers(c)')
  <2>1. CASE UNCHANGED toClient
    BY <1>3, <2>1
  <2>2. ASSUME NEW a \in Answers(c)', toClient' = [toClient EXCEPT ![c] = Append(@, a)]
        PROVE  toClient'[c] \in Seq(Answers(c)')
    <3>1. toClient'[c] = Append(toClient[c], a)
      BY <1>1, <2>2 DEF OfSources
    <3>. QED
      BY <1>3, <2>2, <3>1
  <2>. QED
    BY <2>1, <2>2
<1>6. ChannelsInv(c)'
  BY <1>4, <1>5 DEF ChannelsInv, Questions
<1>7. RopenInv(c)'
  BY <1>1, RopenKept
<1>8. Only(c)
  BY <1>1, <1>2 DEF Only, OfSources
<1>. QED
  BY <1>6, <1>7, <1>8, OnlySource DEF SourceInv

RFStep == [RF!Next]_RF!vars

LEMMA ServeKeeps == ASSUME Inv, NEW c \in Sources, Serve(c) PROVE Inv' /\ RFStep
<1>. DEFINE m == Head(toTerm[c])
<1>1. /\ FilesInv /\ OfSources(toClient) /\ toTerm[c] \in Seq(Questions(c) \cup PacketsFor(c))
  BY DEF Inv, SourceInv, ChannelsInv
<1>2. /\ toTerm[c] # << >> /\ toTerm' = [toTerm EXCEPT ![c] = Tail(@)] /\ UNCHANGED <<call, ropen>>
      /\ \/ ServeCapabilities(c, m) \/ ServeOpen(c, m) \/ ServeData(c, m)
         \/ ServeStatus(c, m) \/ ServeView(c, m)
  BY DEF Serve
<1>3. m \in Questions(c) \cup PacketsFor(c)
  BY <1>1, <1>2
<1>. HIDE DEF m
<1>4. CASE ServeCapabilities(c, m)
  <2>1. /\ UNCHANGED filesVars
        /\ toClient' = [toClient EXCEPT ![c] = Append(@, [kind |-> "Capabilities"])]
    BY <1>4 DEF ServeCapabilities, Reply
  <2>2. [kind |-> "Capabilities"] \in Answers(c)'
    BY DEF Answers
  <2>3. FilesInv' /\ FilesGrow
    BY <1>1, <2>1, SameFiles DEF filesVars
  <2>. QED
    BY <1>2, <2>1, <2>2, <2>3, ServedKeeps DEF RFStep, RF!vars, filesVars
<1>5. CASE ServeOpen(c, m)
  <2>1. PICK id \in 1..MaxOpens :
          /\ RF!OpenFileTransfer(m.source, id)
          /\ toClient' = [toClient EXCEPT ![c] = Append(@, [kind |-> "Ack", request |-> m, id |-> id])]
    BY <1>5 DEF ServeOpen, Reply
  <2>2. m \in [kind : {"OpenFileTransfer"}, source : {c}] /\ m.source = c
    BY <1>3, <1>5 DEF ServeOpen, Questions, PacketsFor
  <2>3. FilesInv' /\ FilesGrow /\ id \in StreamsOf(c)'
    BY <1>1, <2>1, <2>2, OpenOfFiles
  <2>4. [kind |-> "Ack", request |-> m, id |-> id] \in OpenAcks(c)'
    BY <2>2, <2>3 DEF OpenAcks
  <2>5. [kind |-> "Ack", request |-> m, id |-> id] \in Answers(c)'
    BY <2>4 DEF Answers
  <2>6. Inv'
    BY <1>2, <2>1, <2>3, <2>5, ServedKeeps
  <2>7. RF!Next
    BY <2>1, <2>2 DEF RF!Next
  <2>. QED
    BY <2>6, <2>7 DEF RFStep
<1>6. CASE ServeData(c, m)
  <2>1. m.kind = "Data" /\ RF!Transfer(m) /\ UNCHANGED toClient
    BY <1>6 DEF ServeData
  <2>2. m \in PacketsFor(c)
    BY <1>3, <2>1 DEF Questions
  <2>3. FilesInv' /\ FilesGrow
    BY <1>1, <2>1, <2>2, TransferOfFiles
  <2>4. Inv'
    BY <1>2, <2>1, <2>3, ServedKeeps
  <2>. DEFINE d == [id |-> m.id, packet |-> m.packet, from |-> m.from, len |-> m.len]
  <2>5. m.id \in DOMAIN files /\ d \in RF!PacketsOf(m.id)
    BY <2>2 DEF PacketsFor, StreamsOf, RF!PacketsOf
  <2>6. d.id = m.id /\ d.packet = m.packet /\ d.from = m.from /\ d.len = m.len
    OBVIOUS
  <2>7. RF!Transfer(d)
    <3>. HIDE DEF d
    <3>. QED
      BY <2>1, <2>6 DEF RF!Transfer, RF!Payload
  <2>. HIDE DEF d
  <2>8. RF!Next
    BY <2>5, <2>7 DEF RF!Next
  <2>. QED
    BY <2>4, <2>8 DEF RFStep
<1>7. CASE ServeStatus(c, m)
  <2>. DEFINE a == IF m.id \in DOMAIN files THEN StatusOf(m.id) ELSE [kind |-> "Nack", request |-> m]
  <2>1. m.kind = "GetTransferStatus" /\ toClient' = [toClient EXCEPT ![c] = Append(@, a)]
        /\ UNCHANGED filesVars
    BY <1>7 DEF ServeStatus, Reply
  <2>2. m \in Questions(c)
    BY <1>3, <2>1 DEF PacketsFor
  <2>3. FilesInv' /\ FilesGrow /\ UNCHANGED files
    BY <1>1, <2>1, SameFiles DEF filesVars
  <2>4. a \in Answers(c)
    <3>1. CASE m.id \in DOMAIN files
      <4>1. /\ files[m.id].received \in Nat
            /\ files[m.id].received <= Size[files[m.id].source]
        BY <1>1, <3>1 DEF FilesInv
      <4>2. StatusOf(m.id) \in Statuses
        BY <3>1, <4>1 DEF Statuses, StatusOf
      <4>. QED
        BY <3>1, <4>2 DEF Answers
    <3>2. CASE m.id \notin DOMAIN files
      BY <2>2, <3>2 DEF Answers
    <3>. QED
      BY <3>1, <3>2
  <2>. HIDE DEF a
  <2>5. a \in Answers(c)'
    BY <2>3, <2>4, SetsGrow
  <2>6. Inv'
    BY <1>2, <2>1, <2>3, <2>5, ServedKeeps
  <2>. QED
    BY <2>1, <2>6 DEF RFStep, RF!vars, filesVars
<1>8. CASE ServeView(c, m)
  <2>1. m.kind = "ViewRemoteFile"
    BY <1>8 DEF ServeView
  <2>2. m \in [kind : {"ViewRemoteFile"}, id : Nat] /\ m \in Questions(c)
    BY <1>3, <2>1 DEF Questions, PacketsFor
  <2>3. CASE m.id \in DOMAIN files /\ RF!Ready(files[m.id])
    <3>. DEFINE a == [kind |-> "Ack", request |-> m, id |-> m.id]
    <3>1. toClient' = [toClient EXCEPT ![c] = Append(@, a)] /\ RF!View(m.id)
      BY <1>8, <2>3 DEF ServeView, Reply
    <3>2. a \in Answers(c)'
      BY <2>2 DEF Answers, ViewAcks
    <3>. HIDE DEF a
    <3>3. FilesInv' /\ FilesGrow
      BY <1>1, <3>1, SameFiles DEF RF!View, RF!StartViewer, RF!vars
    <3>4. Inv'
      BY <1>2, <3>1, <3>2, <3>3, ServedKeeps
    <3>5. RF!Next
      BY <2>3, <3>1 DEF RF!Next
    <3>. QED
      BY <3>4, <3>5 DEF RFStep
  <2>4. CASE ~ (m.id \in DOMAIN files /\ RF!Ready(files[m.id]))
    <3>. DEFINE a == [kind |-> "Nack", request |-> m]
    <3>1. toClient' = [toClient EXCEPT ![c] = Append(@, a)] /\ UNCHANGED filesVars
      BY <1>8, <2>4 DEF ServeView, Reply
    <3>2. a \in Answers(c)'
      BY <2>2 DEF Answers, Questions
    <3>. HIDE DEF a
    <3>3. FilesInv' /\ FilesGrow
      BY <1>1, <3>1, SameFiles DEF filesVars
    <3>4. Inv'
      BY <1>2, <3>1, <3>2, <3>3, ServedKeeps
    <3>. QED
      BY <3>1, <3>4 DEF RFStep, RF!vars, filesVars
  <2>. QED
    BY <2>3, <2>4
<1>. QED
  BY <1>2, <1>4, <1>5, <1>6, <1>7, <1>8

LEMMA ServeRefusedKeeps ==
  ASSUME Inv, NEW c \in Sources, ServeRefused(c)
  PROVE  Inv' /\ RFStep
<1>. DEFINE m == Head(toTerm[c])
<1>1. FilesInv /\ toTerm[c] \in Seq(Questions(c) \cup PacketsFor(c))
  BY DEF Inv, SourceInv, ChannelsInv
<1>2. /\ toTerm[c] # << >> /\ toTerm' = [toTerm EXCEPT ![c] = Tail(@)]
      /\ UNCHANGED <<call, ropen, toClient>> /\ m.kind = "OpenFileTransfer"
  BY DEF ServeRefused
<1>3. m \in Questions(c) \cup PacketsFor(c)
  BY <1>1, <1>2
<1>4. PICK id \in 1..MaxOpens : RF!OpenRefused(m.source, id)
  BY DEF ServeRefused
<1>. HIDE DEF m
<1>5. m.source = c
  BY <1>2, <1>3 DEF Questions, PacketsFor
<1>6. FilesInv' /\ FilesGrow
  BY <1>1, <1>4, <1>5, RefusalOfFiles
<1>7. Inv'
  BY <1>2, <1>6, ServedKeeps
<1>8. RF!Next
  BY <1>4, <1>5 DEF RF!Next
<1>. QED
  BY <1>7, <1>8 DEF RFStep

-----------------------------------------------------------------------------
LEMMA InitHolds == Init => Inv
<1>. SUFFICES ASSUME Init PROVE Inv
  OBVIOUS
<1>1. FilesInv
  BY TransferAssumption DEF Init, RF!Init, FilesInv
<1>2. OfSources(toTerm) /\ OfSources(toClient) /\ OfSources(call) /\ OfSources(ropen)
  BY DEF Init, OfSources
<1>3. ASSUME NEW c \in Sources PROVE SourceInv(c)
  <2>1. ChannelsInv(c)
    BY <1>3 DEF Init, ChannelsInv
  <2>2. call[c] \in Calls(c) /\ call[c].phase = "idle"
    BY <1>3 DEF Init, Calls
  <2>3. ropen[c] \in Ropens /\ ropen[c].pos = ropen[c].sent /\ ropen[c].sent <= Size[c]
    BY <1>3, TransferAssumption DEF Init, Ropens
  <2>. QED
    BY <2>1, <2>2, <2>3 DEF SourceInv, RopenInv, Answered
<1>. QED
  BY <1>1, <1>2, <1>3 DEF Inv

LEMMA StepHolds == Inv /\ [Next]_vars => Inv' /\ RFStep
<1>. SUFFICES ASSUME Inv, [Next]_vars PROVE Inv' /\ RFStep
  OBVIOUS
<1>1. ASSUME NEW c \in Sources,
             \/ Start(c) \/ OpenLocalFile(c) \/ BeginTransfer(c) \/ SendPacket(c)
             \/ CheckTransferStatus(c) \/ Finish(c) \/ GiveUp(c) \/ Interrupted(c)
             \/ Resend(c) \/ LoseRequest(c) \/ LoseAnswer(c) \/ ShellReads(c) \/ Receive(c)
      PROVE  Inv' /\ RFStep
  <2>1. UNCHANGED filesVars
    BY <1>1 DEF Start, OpenLocalFile, BeginTransfer, SendPacket, CheckTransferStatus, Finish, GiveUp,
                Interrupted, Resend, LoseRequest, LoseAnswer, ShellReads, Receive
  <2>2. RFStep
    BY <2>1 DEF RFStep, RF!vars, filesVars
  <2>. QED
    BY <1>1, <2>2, StartKeeps, OpenLocalFileKeeps, BeginTransferKeeps, SendPacketKeeps,
       CheckTransferStatusKeeps, EndsKeep, ResendKeeps, LossKeeps, ReceiveKeeps
<1>2. ASSUME NEW path \in locked, CloseViewer(path) PROVE Inv' /\ RFStep
  <2>1. RF!Next
    BY <1>2 DEF CloseViewer, RF!Next
  <2>. QED
    BY <1>2, <2>1, CloseViewerKeeps DEF RFStep
<1>3. CASE UNCHANGED vars
  <2>1. UNCHANGED <<files, call, ropen, toTerm, toClient>> /\ RFStep
    BY <1>3 DEF vars, RFStep, RF!vars
  <2>2. FilesInv' /\ FilesGrow
    BY <2>1, SameFiles DEF Inv
  <2>3. ASSUME NEW c \in Sources PROVE SourceInv(c)'
    <3>1. ChannelsInv(c) /\ RopenInv(c)
      BY DEF Inv, SourceInv
    <3>2. ChannelsInv(c)'
      BY <2>1, <2>2, <3>1, ChannelsKept DEF ChannelsInv
    <3>. QED
      BY <2>1, <2>2, <3>1, <3>2, RopenKept DEF SourceInv
  <2>. QED
    BY <2>1, <2>2, <2>3 DEF Inv, OfSources
<1>. QED
  BY <1>1, <1>2, <1>3, ServeKeeps, ServeRefusedKeeps DEF Next, Main

\* Whatever is lost, late, sent twice or interrupted, what the terminal is
\* asked to do by ropen, run any number of times on any files, is what
\* RemoteFiles assumes: the sessions implement RemoteFiles. What is proved of
\* RemoteFiles so holds of a whole transfer.
THEOREM SessionsServe == Spec => ServesRemoteFiles
<1>1. Init => RF!Init
  BY DEF Init
<1>. QED
  BY <1>1, InitHolds, StepHolds, PTL DEF Spec, ServesRemoteFiles, RF!Spec, RFStep

-----------------------------------------------------------------------------
(* RemoteFiles by itself: whatever requests arrive, in any order, each local *)
(* file is a prefix of its remote file and a viewer is only started on a     *)
(* whole one, when no two files have the same host and file name, and the    *)
(* local files can be opened.                                                *)

Refused(k) == files[k].source \in refused

\* A record's local path is one of the names made for its source ...
OwnPaths == \A k \in DOMAIN files :
              \E n \in 0..MaxOpens : files[k].path = RF!LocalPath(files[k].source, n)

\* ... a source has one record, which getOrCreateFile finds again ...
OneRecord == \A j, k \in DOMAIN files :
               files[j].source = files[k].source => j = k \/ Refused(k)

\* ... because the file it looks for on the disk is there from then on ...
FirstPathExists == \A k \in DOMAIN files :
                     Refused(k) \/ RF!LocalPath(files[k].source, 0) \in DOMAIN disk

\* ... and a stream is closed only when nothing is left to be written to it.
ClosedWhole == \A k \in DOMAIN files :
                 Refused(k) \/ files[k].isOpen \/ RF!Ready(files[k])

LocalFilesInv == /\ RF!TypeOK
                 /\ OwnPaths
                 /\ OneRecord
                 /\ FirstPathExists
                 /\ ClosedWhole
                 /\ RF!DeliveredPrefix
                 /\ RF!ShownWhole

\* Two streams never write to the same local file, but those of a source whose
\* file could not be opened.
LEMMA PathsDiffer ==
  ASSUME RF!DistinctNames, RF!TypeOK, OwnPaths, OneRecord,
         NEW j \in DOMAIN files, NEW k \in DOMAIN files, j # k, ~ Refused(k)
  PROVE  files[j].path # files[k].path
<1>1. files[j].source \in Sources /\ files[k].source \in Sources
  BY DEF RF!TypeOK, RF!FileRecords
<1>2. Name[files[j].source] # Name[files[k].source]
  BY <1>1 DEF RF!DistinctNames, OneRecord
<1> QED
  BY <1>2 DEF OwnPaths, RF!LocalPath

\* The next len bytes after the first n give the first n + len.
LEMMA PrefixGrows ==
  ASSUME NEW n \in Nat, NEW len \in Nat
  PROVE  RF!Written([i \in 1..n |-> i], n, [i \in 1..len |-> n + i]) = [i \in 1..(n + len) |-> i]
<1>. DEFINE a == [i \in 1..n |-> i]
            b == [i \in 1..len |-> n + i]
<1>1. Len(a) = n /\ Len(b) = len
  OBVIOUS
<1>2. (n + len) \in {n, n + len} /\ \A y \in {n, n + len} : n + len >= y
  OBVIOUS
<1>3. RF!Max({n, n + len}) \in {n, n + len} /\ \A y \in {n, n + len} : RF!Max({n, n + len}) >= y
  BY <1>2 DEF RF!Max
<1>4. RF!Max({n, n + len}) = n + len
  BY <1>2, <1>3
<1>5. \A i \in 1..(n + len) : i \in (n + 1)..(n + len) => b[i - n] = i
  OBVIOUS
<1>6. \A i \in 1..(n + len) : i \notin (n + 1)..(n + len) => i <= n /\ a[i] = i
  OBVIOUS
<1>. HIDE DEF a, b
<1>7. RF!Written(a, n, b) = [i \in 1..(n + len) |->
                               IF i \in (n + 1)..(n + len) THEN b[i - n]
                               ELSE IF i <= n THEN a[i] ELSE 0]
  BY <1>1, <1>4 DEF RF!Written
<1>8. \A i \in 1..(n + len) : (IF i \in (n + 1)..(n + len) THEN b[i - n]
                               ELSE IF i <= n THEN a[i] ELSE 0) = i
  BY <1>5, <1>6
<1>9. RF!Written(a, n, b) = [i \in 1..(n + len) |-> i]
  BY <1>7, <1>8
<1>. QED
  BY <1>9 DEF a, b

LEMMA WrittenTyped ==
  ASSUME NEW bytes \in Seq(Nat), NEW pos \in Nat, NEW more \in Seq(Nat)
  PROVE  RF!Written(bytes, pos, more) \in Seq(Nat)
<1>. DEFINE m == RF!Max({Len(bytes), pos + Len(more)})
<1>1. m \in Nat
  <2>1. \E x \in {Len(bytes), pos + Len(more)} : \A y \in {Len(bytes), pos + Len(more)} : x >= y
    <3>1. Len(bytes) \in Nat /\ pos + Len(more) \in Nat
      OBVIOUS
    <3>. QED
      BY <3>1
  <2>2. m \in {Len(bytes), pos + Len(more)}
    BY <2>1 DEF RF!Max
  <2>. QED
    BY <2>2
<1>. HIDE DEF m
<1>2. \A i \in 1..m : (IF i \in (pos + 1)..(pos + Len(more)) THEN more[i - pos]
                       ELSE IF i <= Len(bytes) THEN bytes[i] ELSE 0) \in Nat
  OBVIOUS
<1>3. RF!Written(bytes, pos, more) =
        [i \in 1..m |-> IF i \in (pos + 1)..(pos + Len(more)) THEN more[i - pos]
                        ELSE IF i <= Len(bytes) THEN bytes[i] ELSE 0]
  BY DEF RF!Written, m
<1>4. RF!Written(bytes, pos, more) \in [1..m -> Nat]
  BY <1>2, <1>3
<1>. QED
  BY <1>1, <1>4

LEMMA EmptyPrefix == [i \in 1..0 |-> i] = << >>
  OBVIOUS

LEMMA FilesInit == RF!Init => LocalFilesInv
  BY TransferAssumption
     DEF RF!Init, LocalFilesInv, RF!TypeOK, OwnPaths, OneRecord, FirstPathExists, ClosedWhole,
         RF!DeliveredPrefix, RF!ShownWhole

LEMMA OpenServed ==
  ASSUME RF!DistinctNames, LocalFilesInv, NEW s \in Sources, NEW id \in 1..MaxOpens,
         RF!OpenFileTransfer(s, id)
  PROVE  LocalFilesInv'
<1>0. Size \in [Sources -> Nat] /\ MaxOpens \in Nat
  BY TransferAssumption
<1> USE <1>0
<1>1. PICK path \in RF!Paths :
        /\ RF!OpensAt(s, id, path)
        /\ files' = [k \in DOMAIN files \cup {id} |->
                       IF k = id THEN RF!Opened(s, id, path) ELSE files[k]]
        /\ disk' = [p \in DOMAIN disk \cup {path} |->
                      IF p = path THEN << >> ELSE disk[p]]
  BY DEF RF!OpenFileTransfer
<1>2. UNCHANGED <<locked, shown, refused>> /\ opens' = opens + 1 /\ opens < MaxOpens
  BY DEF RF!OpenFileTransfer
<1>3. /\ id \in DOMAIN files => files[id].source = s
      /\ \A k \in DOMAIN files : k # id => files[k].source # s \/ s \in refused
  <2>1. CASE RF!LocalPath(s, 0) \in DOMAIN disk /\ RF!StreamsOf(s) # {}
    <3>1. id \in DOMAIN files /\ files[id].source = s
      BY <2>1 DEF RF!OpenFileTransfer, RF!FileOf, RF!StreamsOf
    <3> QED
      BY <3>1 DEF LocalFilesInv, OneRecord, Refused
  <2>2. CASE ~ (RF!LocalPath(s, 0) \in DOMAIN disk /\ RF!StreamsOf(s) # {})
    <3>1. id \notin DOMAIN files
      BY <2>2 DEF RF!OpenFileTransfer, RF!FileOf, RF!IsNewId
    <3>2. \A k \in DOMAIN files : files[k].source # s \/ s \in refused
      BY <2>2 DEF LocalFilesInv, FirstPathExists, Refused, RF!StreamsOf
    <3> QED
      BY <3>1, <3>2
  <2> QED
    BY <2>1, <2>2
<1>4. \E n \in 0..MaxOpens : path = RF!LocalPath(s, n)
  <2>1. CASE RF!PathOf(s, id) \in locked
    BY <1>1, <2>1 DEF RF!OpensAt
  <2>2. CASE RF!PathOf(s, id) \notin locked
    <3>1. path = RF!PathOf(s, id)
      BY <1>1, <2>2 DEF RF!OpensAt
    <3> QED
      BY <1>3, <3>1 DEF RF!PathOf, LocalFilesInv, OwnPaths
  <2> QED
    BY <2>1, <2>2
<1>5. s \in refused \/ RF!LocalPath(s, 0) \in DOMAIN disk \cup {path}
  BY <1>1, <1>3 DEF RF!OpensAt, RF!PathOf, LocalFilesInv, FirstPathExists, Refused, RF!TypeOK
<1>6. \A k \in DOMAIN files : k # id => Refused(k) \/ files[k].path # path
  <2> SUFFICES ASSUME NEW k \in DOMAIN files, k # id, ~ Refused(k)
               PROVE  files[k].path # path
    OBVIOUS
  <2>1. Name[files[k].source] # Name[s]
    BY <1>3 DEF RF!DistinctNames, LocalFilesInv, RF!TypeOK, RF!FileRecords, Refused
  <2> QED
    BY <1>4, <2>1 DEF LocalFilesInv, OwnPaths, RF!LocalPath
<1>7. /\ DOMAIN files' = DOMAIN files \cup {id}
      /\ files'[id] = [source |-> s, received |-> 0, path |-> path, isOpen |-> TRUE]
      /\ \A k \in DOMAIN files : k # id => files'[k] = files[k]
  BY <1>1 DEF RF!Opened
<1>8. /\ DOMAIN disk' = DOMAIN disk \cup {path}
      /\ disk'[path] = << >>
      /\ \A p \in DOMAIN disk : p # path => disk'[p] = disk[p]
  BY <1>1
<1>9. RF!TypeOK'
  <2>1. files'[id] \in RF!FileRecords /\ files'[id].received <= Size[files'[id].source]
    <3>1. Size[s] \in Nat /\ path \in RF!Paths
      BY <1>1
    <3>2. files'[id] \in RF!FileRecords
      BY <1>7, <3>1 DEF RF!FileRecords
    <3> QED
      BY <1>7, <3>1, <3>2
  <2>2. \A k \in DOMAIN files' : /\ files'[k] \in RF!FileRecords
                                /\ files'[k].received <= Size[files'[k].source]
    BY <1>7, <2>1 DEF LocalFilesInv, RF!TypeOK, RF!FileRecords
  <2>3. \A p \in DOMAIN disk' : disk'[p] \in Seq(Nat)
    <3>1. << >> \in Seq(Nat)
      OBVIOUS
    <3> QED
      BY <1>8, <3>1 DEF LocalFilesInv, RF!TypeOK
  <2>4. DOMAIN files' \subseteq 1..MaxOpens /\ DOMAIN disk' \subseteq RF!Paths
    BY <1>1, <1>7, <1>8 DEF LocalFilesInv, RF!TypeOK
  <2>5. locked' \subseteq DOMAIN disk' /\ opens' \in 0..MaxOpens /\ refused' \subseteq Sources
    BY <1>2, <1>8 DEF LocalFilesInv, RF!TypeOK
  <2> QED
    BY <2>2, <2>3, <2>4, <2>5 DEF RF!TypeOK, RF!FileRecords, RF!Paths, RF!LocalPath
<1>10. OwnPaths'
  BY <1>4, <1>7 DEF LocalFilesInv, OwnPaths
<1>11. OneRecord'
  BY <1>2, <1>3, <1>7 DEF LocalFilesInv, OneRecord, Refused
<1>12. FirstPathExists'
  BY <1>2, <1>5, <1>7, <1>8 DEF LocalFilesInv, FirstPathExists, Refused
<1>13. ClosedWhole'
  BY <1>2, <1>7 DEF LocalFilesInv, ClosedWhole, Refused, RF!Ready
<1>14. RF!DeliveredPrefix'
  BY <1>2, <1>6, <1>7, <1>8, EmptyPrefix DEF LocalFilesInv, RF!DeliveredPrefix, Refused
<1>15. RF!ShownWhole'
  BY <1>2 DEF LocalFilesInv, RF!ShownWhole, RF!Whole
<1> QED
  BY <1>9, <1>10, <1>11, <1>12, <1>13, <1>14, <1>15 DEF LocalFilesInv

LEMMA RefusalServed ==
  ASSUME LocalFilesInv, NEW s \in Sources, NEW id \in 1..MaxOpens, RF!OpenRefused(s, id)
  PROVE  LocalFilesInv'
<1>1. PICK n \in 1..MaxOpens :
        files' = [k \in DOMAIN files \cup {id} |->
                    IF k # id THEN files[k]
                    ELSE [source |-> s, received |-> 0,
                          path |-> RF!LocalPath(s, n), isOpen |-> FALSE]]
  BY DEF RF!OpenRefused
<1>2. /\ UNCHANGED <<disk, locked, shown>> /\ refused' = refused \cup {s}
      /\ opens' = opens + 1 /\ opens < MaxOpens
  BY DEF RF!OpenRefused
<1>3. id \in DOMAIN files => files[id].source = s
  BY DEF RF!OpenRefused, RF!FileOf, RF!StreamsOf, RF!IsNewId
<1>4. /\ RF!LocalPath(s, n) \in RF!Paths /\ Size[s] \in Nat
      /\ n \in 0..MaxOpens /\ MaxOpens \in Nat
  BY TransferAssumption DEF RF!Paths
<1>. DEFINE path == RF!LocalPath(s, n)
            f == [source |-> s, received |-> 0, path |-> path, isOpen |-> FALSE]
<1>. HIDE DEF path
<1>5. /\ DOMAIN files' = DOMAIN files \cup {id} /\ files'[id] = f
      /\ \A k \in DOMAIN files : k # id => files'[k] = files[k]
  BY <1>1 DEF path
<1>6. /\ files'[id] \in RF!FileRecords /\ files'[id].received <= Size[files'[id].source]
      /\ files'[id].source = s /\ files'[id].path = path
  BY <1>4, <1>5 DEF path, RF!FileRecords
<1>. HIDE DEF f
\* What is left is about other sources.
<1>7. \A k \in DOMAIN files' : \/ k \in DOMAIN files /\ files'[k] = files[k]
                             \/ files'[k].source \in refused'
  BY <1>2, <1>5, <1>6
<1>8. RF!TypeOK'
  <2>1. \A k \in DOMAIN files' : /\ files'[k] \in RF!FileRecords
                                 /\ files'[k].received <= Size[files'[k].source]
    BY <1>5, <1>6 DEF LocalFilesInv, RF!TypeOK
  <2>2. DOMAIN files' \subseteq 1..MaxOpens
    BY <1>5 DEF LocalFilesInv, RF!TypeOK
  <2>3. opens' \in 0..MaxOpens /\ refused' \subseteq Sources
    BY <1>2, <1>4 DEF LocalFilesInv, RF!TypeOK
  <2> QED
    BY <1>2, <2>1, <2>2, <2>3 DEF LocalFilesInv, RF!TypeOK, RF!FileRecords, RF!Paths, RF!LocalPath
<1>9. OwnPaths'
  <2>1. \E m \in 0..MaxOpens : files'[id].path = RF!LocalPath(files'[id].source, m)
    BY <1>4, <1>6 DEF path
  <2> QED
    BY <1>5, <2>1 DEF LocalFilesInv, OwnPaths, RF!LocalPath
<1>10. OneRecord'
  <2> SUFFICES ASSUME NEW j \in DOMAIN files', NEW k \in DOMAIN files',
                      files'[j].source = files'[k].source, files'[k].source \notin refused'
               PROVE  j = k
    BY DEF OneRecord, Refused
  <2>1. files'[j] = files[j] /\ files'[k] = files[k] /\ j \in DOMAIN files /\ k \in DOMAIN files
    BY <1>7
  <2> QED
    BY <1>2, <2>1 DEF LocalFilesInv, OneRecord, Refused
<1>11. FirstPathExists' /\ ClosedWhole'
  BY <1>2, <1>7 DEF LocalFilesInv, FirstPathExists, ClosedWhole, Refused, RF!Ready, RF!LocalPath
<1>12. RF!DeliveredPrefix'
  BY <1>2, <1>7 DEF LocalFilesInv, RF!DeliveredPrefix
<1>13. RF!ShownWhole'
  BY <1>2 DEF LocalFilesInv, RF!ShownWhole, RF!Whole
<1> QED
  BY <1>8, <1>9, <1>10, <1>11, <1>12, <1>13 DEF LocalFilesInv

LEMMA TransferServed ==
  ASSUME RF!DistinctNames, LocalFilesInv, NEW id \in DOMAIN files, NEW data \in RF!PacketsOf(id),
         RF!Transfer(data)
  PROVE  LocalFilesInv'
<1>0. Size \in [Sources -> Nat] /\ MaxOpens \in Nat
  BY TransferAssumption
<1> USE <1>0
<1> DEFINE f == files[id]
           total == f.received + data.len
<1>1. /\ data.id = id
      /\ data.packet \in Nat /\ data.len \in Nat
      /\ data.from = data.packet
      /\ data.packet + data.len <= Size[f.source]
  BY DEF RF!PacketsOf, LocalFilesInv, RF!TypeOK, RF!FileRecords
<1>2. CASE f.received # data.packet
  <2>1. UNCHANGED RF!vars
    BY <1>1, <1>2 DEF RF!Transfer
  <2> QED
    BY <2>1 DEF RF!vars, LocalFilesInv, RF!TypeOK, OwnPaths, OneRecord, FirstPathExists,
                ClosedWhole, Refused, RF!DeliveredPrefix, RF!ShownWhole, RF!Whole, RF!Ready
<1>3. CASE f.received = data.packet
  <2>1. /\ files' = [files EXCEPT ![id].received = total,
                                  ![id].isOpen = @ /\ total # Size[f.source]]
        /\ disk' = IF f.isOpen
                     THEN [disk EXCEPT ![f.path] = RF!Written(@, f.received, RF!Payload(data))]
                     ELSE disk
        /\ UNCHANGED <<locked, shown, refused, opens>>
    BY <1>1, <1>3 DEF RF!Transfer
  <2>2. /\ f \in RF!FileRecords
        /\ \/ Refused(id)
           \/ /\ f.path \in DOMAIN disk
              /\ disk[f.path] = [i \in 1..f.received |-> i]
              /\ disk[f.path] \in Seq(Nat)
    BY DEF LocalFilesInv, RF!TypeOK, RF!DeliveredPrefix, Refused
  <2>3. /\ DOMAIN files' = DOMAIN files
        /\ files'[id].source = f.source /\ files'[id].path = f.path
        /\ files'[id].received = total
        /\ files'[id].isOpen = (f.isOpen /\ total # Size[f.source])
        /\ files'[id] \in RF!FileRecords
        /\ total <= Size[f.source]
        /\ \A k \in DOMAIN files : k # id => files'[k] = files[k]
    <3>1. files'[id] = [f EXCEPT !.received = total,
                                 !.isOpen = @ /\ total # Size[f.source]]
      BY <2>1
    <3>2. /\ total \in Nat
          /\ total <= Size[f.source]
      BY <1>1, <1>3, <2>2 DEF RF!FileRecords
    <3>3. /\ DOMAIN files' = DOMAIN files
          /\ \A k \in DOMAIN files : k # id => files'[k] = files[k]
      BY <2>1
    <3>4. (f.isOpen /\ total # Size[f.source]) \in BOOLEAN
      BY <2>2 DEF RF!FileRecords
    <3> QED
      BY <2>2, <3>1, <3>2, <3>3, <3>4 DEF RF!FileRecords
  <2>4. /\ DOMAIN disk' = DOMAIN disk
        /\ Refused(id) \/ disk'[f.path] = [i \in 1..total |-> i]
        /\ \A p \in DOMAIN disk : p # f.path => disk'[p] = disk[p]
        /\ \A p \in DOMAIN disk : disk'[p] \in Seq(Nat)
    <3>. DEFINE new == RF!Written(disk[f.path], f.received, RF!Payload(data))
    <3>1. RF!Payload(data) = [i \in 1..data.len |-> f.received + i] /\ f.received \in Nat
      BY <1>1, <1>3, <2>2 DEF RF!Payload, RF!FileRecords
    <3>2. RF!Payload(data) \in Seq(Nat)
      BY <1>1, <3>1
    <3>3. \A p \in DOMAIN disk : disk[p] \in Seq(Nat)
      BY DEF LocalFilesInv, RF!TypeOK
    <3>4. f.path \in DOMAIN disk => new \in Seq(Nat)
      <4>. HIDE DEF f
      <4>. QED
        BY <3>1, <3>2, <3>3, WrittenTyped
    <3>5. CASE f.isOpen
      <4>1. disk' = [disk EXCEPT ![f.path] = new]
        BY <2>1, <3>5
      <4>2. ~ Refused(id) => new = [i \in 1..total |-> i]
        BY <1>1, <2>2, <3>1, PrefixGrows
      <4>. HIDE DEF new, total, f
      <4>3. /\ DOMAIN disk' = DOMAIN disk
            /\ f.path \in DOMAIN disk => disk'[f.path] = new
            /\ \A p \in DOMAIN disk : p # f.path => disk'[p] = disk[p]
        BY <4>1
      <4>4. ~ Refused(id) => f.path \in DOMAIN disk
        BY <2>2
      <4>. QED
        BY <3>3, <3>4, <4>2, <4>3, <4>4
    <3>6. CASE ~ f.isOpen
      <4>1. Refused(id) \/ data.len = 0
        BY <1>1, <1>3, <2>2, <3>6 DEF LocalFilesInv, ClosedWhole, RF!Ready, RF!FileRecords
      <4>2. Refused(id) \/ total = f.received
        BY <3>1, <4>1
      <4> QED
        BY <2>1, <2>2, <3>3, <3>6, <4>2
    <3> QED
      BY <3>5, <3>6
  <2>5. \A k \in DOMAIN files : k # id => Refused(k) \/ files[k].path # f.path
    BY PathsDiffer DEF LocalFilesInv
  <2>6. RF!TypeOK'
    <3>1. \A k \in DOMAIN files' : /\ files'[k] \in RF!FileRecords
                                   /\ files'[k].received <= Size[files'[k].source]
      BY <2>3 DEF LocalFilesInv, RF!TypeOK
    <3>2. RF!FileRecords' = RF!FileRecords /\ RF!Paths' = RF!Paths
      BY DEF RF!FileRecords, RF!Paths, RF!LocalPath
    <3>3. DOMAIN files' \subseteq 1..MaxOpens /\ \A p \in DOMAIN disk' : disk'[p] \in Seq(Nat)
      BY <2>3, <2>4 DEF LocalFilesInv, RF!TypeOK
    <3> QED
      BY <2>1, <2>4, <3>1, <3>2, <3>3 DEF LocalFilesInv, RF!TypeOK
  <2>7. OwnPaths' /\ OneRecord' /\ FirstPathExists'
    <3>1. \A k \in DOMAIN files : files'[k].source = files[k].source /\ files'[k].path = files[k].path
      BY <2>3
    <3>2. DOMAIN files' = DOMAIN files /\ DOMAIN disk' = DOMAIN disk /\ refused' = refused
      BY <2>1, <2>3, <2>4
    <3>3. OwnPaths /\ OneRecord /\ FirstPathExists
      BY DEF LocalFilesInv
    <3> QED
      BY ONLY <3>1, <3>2, <3>3 DEF OwnPaths, OneRecord, FirstPathExists, Refused, RF!LocalPath
  <2>8. ClosedWhole'
    BY <1>1, <2>1, <2>2, <2>3 DEF LocalFilesInv, ClosedWhole, Refused, RF!Ready, RF!FileRecords
  <2>9. RF!DeliveredPrefix'
    <3> SUFFICES ASSUME NEW k \in DOMAIN files, ~ Refused(k)
                 PROVE  /\ files'[k].path \in DOMAIN disk'
                        /\ disk'[files'[k].path] = [i \in 1..files'[k].received |-> i]
      BY <2>1, <2>3 DEF RF!DeliveredPrefix, Refused
    <3>1. CASE k = id
      BY <2>2, <2>3, <2>4, <3>1
    <3>2. CASE k # id
      <4>1. files[k].path \in DOMAIN disk /\ files[k].path # f.path
        BY <2>5, <3>2 DEF LocalFilesInv, RF!DeliveredPrefix, Refused
      <4>2. disk[files[k].path] = [i \in 1..files[k].received |-> i]
        BY DEF LocalFilesInv, RF!DeliveredPrefix, Refused
      <4> QED
        BY <2>3, <2>4, <3>2, <4>1, <4>2
    <3> QED
      BY <3>1, <3>2
  <2>10. RF!ShownWhole'
    BY <2>1 DEF LocalFilesInv, RF!ShownWhole, RF!Whole
  <2> QED
    BY <2>6, <2>7, <2>8, <2>9, <2>10 DEF LocalFilesInv
<1> QED
  BY <1>2, <1>3

LEMMA ViewServed ==
  ASSUME LocalFilesInv, NEW id \in DOMAIN files, RF!View(id)
  PROVE  LocalFilesInv'
<1>1. UNCHANGED <<files, disk, refused, opens>>
  BY DEF RF!View, RF!StartViewer, RF!vars
<1>2. RF!TypeOK'
  BY <1>1 DEF LocalFilesInv, RF!TypeOK, RF!View, RF!StartViewer, RF!vars
<1>3. RF!ShownWhole'
  <2>1. RF!Ready(files[id]) => Refused(id) \/ disk[files[id].path] = RF!Whole(files[id].source)
    BY DEF LocalFilesInv, RF!DeliveredPrefix, Refused, RF!Whole, RF!Ready
  <2>2. \A v \in shown' : v[1] \notin refused => v[2] = RF!Whole(v[1])
    <3>1. CASE RF!Ready(files[id])
      BY <2>1, <3>1 DEF LocalFilesInv, RF!ShownWhole, Refused, RF!View, RF!StartViewer
    <3>2. CASE ~ RF!Ready(files[id])
      BY <3>2 DEF LocalFilesInv, RF!ShownWhole, RF!View, RF!vars
    <3> QED
      BY <3>1, <3>2
  <2> QED
    BY <1>1, <2>2 DEF RF!ShownWhole, RF!Whole
<1>4. (OwnPaths /\ OneRecord /\ FirstPathExists /\ ClosedWhole /\ RF!DeliveredPrefix)'
  BY <1>1 DEF LocalFilesInv, OwnPaths, OneRecord, FirstPathExists, ClosedWhole, Refused, RF!Ready,
              RF!DeliveredPrefix
<1> QED
  BY <1>2, <1>3, <1>4 DEF LocalFilesInv

LEMMA CloseViewerServed ==
  ASSUME LocalFilesInv, NEW path \in locked, RF!CloseViewer(path)
  PROVE  LocalFilesInv'
BY DEF RF!CloseViewer, LocalFilesInv, RF!TypeOK, OwnPaths, OneRecord, FirstPathExists, ClosedWhole,
       Refused, RF!Ready, RF!DeliveredPrefix, RF!ShownWhole, RF!Whole

LEMMA RequestServed == RF!DistinctNames /\ LocalFilesInv /\ [RF!Next]_RF!vars => LocalFilesInv'
<1> SUFFICES ASSUME RF!DistinctNames, LocalFilesInv, [RF!Next]_RF!vars
             PROVE  LocalFilesInv'
  OBVIOUS
<1>1. ASSUME NEW s \in Sources, NEW id \in 1..MaxOpens, RF!OpenFileTransfer(s, id)
      PROVE  LocalFilesInv'
  BY <1>1, OpenServed
<1>6. ASSUME NEW s \in Sources, NEW id \in 1..MaxOpens, RF!OpenRefused(s, id)
      PROVE  LocalFilesInv'
  BY <1>6, RefusalServed
<1>2. ASSUME NEW id \in DOMAIN files, NEW data \in RF!PacketsOf(id), RF!Transfer(data)
      PROVE  LocalFilesInv'
  BY <1>2, TransferServed
<1>3. ASSUME NEW id \in DOMAIN files, RF!View(id)
      PROVE  LocalFilesInv'
  BY <1>3, ViewServed
<1>4. ASSUME NEW path \in locked, RF!CloseViewer(path)
      PROVE  LocalFilesInv'
  BY <1>4, CloseViewerServed
<1>5. CASE UNCHANGED RF!vars
  BY <1>5 DEF RF!vars, LocalFilesInv, RF!TypeOK, OwnPaths, OneRecord, FirstPathExists,
              ClosedWhole, Refused, RF!DeliveredPrefix, RF!ShownWhole, RF!Whole, RF!Ready
<1> QED
  BY <1>1, <1>2, <1>3, <1>4, <1>5, <1>6 DEF RF!Next

\* The inductive invariant holds of every behaviour.
THEOREM FilesInvariant == ASSUME RF!DistinctNames PROVE RF!Spec => []LocalFilesInv
<1>1. LocalFilesInv /\ [RF!Next]_RF!vars => LocalFilesInv'
  BY RequestServed
<1> QED
  BY <1>1, FilesInit, PTL DEF RF!Spec

\* Type correctness, and no stream receives more than the file has.
THEOREM FilesTyped == ASSUME RF!DistinctNames PROVE RF!Spec => []RF!TypeOK
<1>1. LocalFilesInv => RF!TypeOK
  BY DEF LocalFilesInv
<1> QED
  BY <1>1, FilesInvariant, PTL

\* Each local file that could be opened is at all times a prefix of its remote
\* file, and received_ is its length, whatever order the requests come in.
THEOREM PrefixDelivered == ASSUME RF!DistinctNames PROVE RF!Spec => []DeliveredPrefix
<1>1. LocalFilesInv => DeliveredPrefix
  BY DEF LocalFilesInv, RF!DeliveredPrefix, DeliveredPrefix
<1> QED
  BY <1>1, FilesInvariant, PTL

\* A viewer is only started on a whole file, unless a local file for it could
\* once not be opened.
THEOREM WholeShown == ASSUME RF!DistinctNames PROVE RF!Spec => []ShownWhole
<1>1. LocalFilesInv => ShownWhole
  BY DEF LocalFilesInv, RF!ShownWhole, ShownWhole, RF!Whole, Whole
<1> QED
  BY <1>1, FilesInvariant, PTL

-----------------------------------------------------------------------------
(* What is true of RemoteFiles is true of the sessions that implement it *)

\* So a viewer started for any run of ropen is started on the whole file, if
\* no two files share a local name, and the local files could be opened.
THEOREM TransfersShowWhole == ASSUME RF!DistinctNames PROVE Spec => []ShownWhole
BY SessionsServe, WholeShown, PTL DEF ServesRemoteFiles

\* Likewise each local file is what of its file was received, in all runs.
LEMMA TransfersDeliver == ASSUME RF!DistinctNames PROVE Spec => []DeliveredPrefix
BY SessionsServe, PrefixDelivered, PTL DEF ServesRemoteFiles

-----------------------------------------------------------------------------
(* A run that nothing of an earlier one disturbs *)

NoneOpens(s) == \A i \in DOMAIN s : s[i].kind # "OpenFileTransfer"
NoneAsks(s) == \A i \in DOMAIN s : s[i].kind # "GetTransferStatus"
NoneTells(s) == \A i \in DOMAIN s : s[i].kind # "TransferStatus"

\* A status of a stream of c that says no more than is still true.
Held(c, m) == m.id \in StreamsOf(c) /\ m.received <= files[m.id].received

\* The status is only asked of a stream among ks, and no request to open, sent
\* twice, is behind the question, ...
AskInOrder(s, ks) ==
  \A i \in DOMAIN s : s[i].kind = "GetTransferStatus" =>
    /\ s[i].id \in ks
    /\ \A j \in DOMAIN s : i < j => s[j].kind # "OpenFileTransfer"

\* ... so that none is left once it is answered, and the answer stays true ...
AnswersHeld(c) ==
  \A i \in DOMAIN toClient[c] : toClient[c][i].kind = "TransferStatus" =>
    NoneOpens(toTerm[c]) /\ Held(c, toClient[c][i])

\* ... until ropen has come to its end.
InPhase(c) ==
  /\ call[c].phase \in {"caps", "open"} => NoneAsks(toTerm[c]) /\ NoneTells(toClient[c])
  /\ Answered(c, "status") => NoneOpens(toTerm[c]) /\ Held(c, call[c].answer)
  /\ call[c].phase \in {"view", "done"} =>
       /\ ropen[c].id \in StreamsOf(c)
       /\ files[ropen[c].id].received = Size[c]
       /\ Size[c] > 0 => NoneOpens(toTerm[c])

RunInv(c) == AskInOrder(toTerm[c], StreamsOf(c)) /\ AnswersHeld(c) /\ InPhase(c)

OnCourse(c) == clean[c] /\ (Running(c) \/ call[c].phase = "done")

CleanInv == /\ OfSources(clean)
            /\ \A c \in Sources : OnCourse(c) => RunInv(c)

\* What was received of c stays so.
Grown(c) == \A k \in StreamsOf(c) : /\ k \in StreamsOf(c)'
                                    /\ files'[k].received >= files[k].received

LEMMA SameGrown == ASSUME Inv, UNCHANGED files, NEW c \in Sources PROVE Grown(c)
BY DEF Grown, StreamsOf, Inv, FilesInv

LEMMA HeldKept ==
  ASSUME Inv, Inv', NEW c \in Sources, Grown(c), NEW m, m.received \in Nat, Held(c, m)
  PROVE  m.id \in StreamsOf(c)' /\ m.received <= files'[m.id].received
<1>1. m.id \in StreamsOf(c) /\ m.id \in StreamsOf(c)' /\ files'[m.id].received >= files[m.id].received
  BY DEF Held, Grown
<1>2. files[m.id].received \in Nat /\ files'[m.id].received \in Nat
  BY <1>1 DEF Inv, FilesInv, StreamsOf
<1>. QED
  BY <1>1, <1>2 DEF Held

\* The kinds of what is on its way.
LEMMA StatusTyped ==
  ASSUME Inv, NEW c \in Sources
  PROVE  /\ \A i \in DOMAIN toClient[c] :
              toClient[c][i].kind = "TransferStatus" => toClient[c][i].received \in Nat
         /\ Answered(c, "status") => call[c].answer.received \in Nat
<1>1. toClient[c] \in Seq(Answers(c))
  BY DEF Inv, SourceInv, ChannelsInv
<1>2. \A m \in Answers(c) : m.kind = "TransferStatus" => m.received \in Nat
  BY DEF Answers, OpenAcks, ViewAcks, Statuses
<1>3. \A i \in DOMAIN toClient[c] : toClient[c][i] \in Answers(c)
  BY <1>1
<1>4. Answered(c, "status") => call[c].answer.received \in Nat
  BY DEF Inv, SourceInv, RopenInv, Statuses
<1>. QED
  BY <1>2, <1>3, <1>4

\* The rest of a sequence has nothing that the whole has not.
LEMMA TailTyped ==
  ASSUME NEW S, NEW s \in Seq(S), s # << >>
  PROVE  /\ Tail(s) \in Seq(S)
         /\ \A i \in DOMAIN Tail(s) : i + 1 \in DOMAIN s /\ Tail(s)[i] = s[i + 1]
         /\ 1 \in DOMAIN s /\ Head(s) = s[1]
         /\ \A i \in DOMAIN s : i \in Nat
OBVIOUS

LEMMA AppendTyped ==
  ASSUME NEW S, NEW s \in Seq(S), NEW e
  PROVE  \A i \in DOMAIN Append(s, e) :
           /\ i \in Nat
           /\ \/ i \in DOMAIN s /\ i <= Len(s) /\ Append(s, e)[i] = s[i]
              \/ i = Len(s) + 1 /\ Append(s, e)[i] = e
OBVIOUS

LEMMA TailInOrder ==
  ASSUME NEW S, NEW s \in Seq(S), s # << >>, NEW ks
  PROVE  /\ AskInOrder(s, ks) => AskInOrder(Tail(s), ks)
         /\ NoneOpens(s) => NoneOpens(Tail(s))
         /\ NoneAsks(s) => NoneAsks(Tail(s))
         /\ NoneTells(s) => NoneTells(Tail(s))
<1>. DEFINE t == Tail(s)
<1>1. \A i \in DOMAIN t : i \in Nat /\ i + 1 \in DOMAIN s /\ t[i] = s[i + 1]
  <2>1. t \in Seq(S)
    BY TailTyped
  <2>2. \A i \in DOMAIN t : i \in Nat
    BY <2>1
  <2>. QED
    BY <2>2, TailTyped
<1>. HIDE DEF t
<1>2. NoneOpens(s) => NoneOpens(t)
  BY <1>1 DEF NoneOpens
<1>3. NoneAsks(s) => NoneAsks(t)
  BY <1>1 DEF NoneAsks
<1>4. NoneTells(s) => NoneTells(t)
  BY <1>1 DEF NoneTells
<1>5. ASSUME AskInOrder(s, ks) PROVE AskInOrder(t, ks)
  <2>. SUFFICES ASSUME NEW i \in DOMAIN t, t[i].kind = "GetTransferStatus"
                PROVE  t[i].id \in ks /\ \A j \in DOMAIN t : i < j => t[j].kind # "OpenFileTransfer"
    BY DEF AskInOrder
  <2>1. s[i + 1].id \in ks /\ \A j \in DOMAIN s : i + 1 < j => s[j].kind # "OpenFileTransfer"
    BY <1>1, <1>5 DEF AskInOrder
  <2>2. \A j \in DOMAIN t : i < j => i + 1 < j + 1
    BY <1>1
  <2>. QED
    BY <1>1, <2>1, <2>2
<1>. QED
  BY <1>2, <1>3, <1>4, <1>5 DEF t

LEMMA AppendInOrder ==
  ASSUME NEW S, NEW s \in Seq(S), NEW m, NEW ks, AskInOrder(s, ks),
         m.kind = "OpenFileTransfer" => NoneAsks(s),
         m.kind = "GetTransferStatus" => m.id \in ks
  PROVE  /\ AskInOrder(Append(s, m), ks)
         /\ NoneOpens(s) /\ m.kind # "OpenFileTransfer" => NoneOpens(Append(s, m))
         /\ NoneAsks(s) /\ m.kind # "GetTransferStatus" => NoneAsks(Append(s, m))
<1>. DEFINE t == Append(s, m)
<1>1. \A i \in DOMAIN t : /\ i \in Nat
                          /\ \/ i \in DOMAIN s /\ i <= Len(s) /\ t[i] = s[i]
                             \/ i = Len(s) + 1 /\ t[i] = m
  BY AppendTyped
<1>2. Len(s) \in Nat
  OBVIOUS
<1>. HIDE DEF t
<1>3. NoneOpens(s) /\ m.kind # "OpenFileTransfer" => NoneOpens(t)
  BY <1>1 DEF NoneOpens
<1>4. NoneAsks(s) /\ m.kind # "GetTransferStatus" => NoneAsks(t)
  BY <1>1 DEF NoneAsks
<1>5. AskInOrder(t, ks)
  <2>. SUFFICES ASSUME NEW i \in DOMAIN t, t[i].kind = "GetTransferStatus"
                PROVE  /\ t[i].id \in ks
                       /\ \A j \in DOMAIN t : i < j => t[j].kind # "OpenFileTransfer"
    BY DEF AskInOrder
  <2>1. CASE i = Len(s) + 1 /\ t[i] = m
    BY <1>1, <1>2, <2>1
  <2>2. CASE i \in DOMAIN s /\ t[i] = s[i]
    <3>1. t[i].id \in ks /\ ~ NoneAsks(s)
      BY <2>2 DEF AskInOrder, NoneAsks
    <3>2. ASSUME NEW j \in DOMAIN t, i < j PROVE t[j].kind # "OpenFileTransfer"
      BY <1>1, <2>2, <3>1, <3>2 DEF AskInOrder
    <3>. QED
      BY <3>1, <3>2
  <2>. QED
    BY <1>1, <2>1, <2>2
<1>. QED
  BY <1>3, <1>4, <1>5 DEF t

LEMMA AnswersKept ==
  ASSUME Inv, Inv', NEW c \in Sources, AnswersHeld(c),
         Grown(c) \/ NoneTells(toClient[c]),
         NoneOpens(toTerm[c]) => NoneOpens(toTerm'[c]),
         \A i \in DOMAIN toClient'[c] :
           \/ \E j \in DOMAIN toClient[c] : toClient'[c][i] = toClient[c][j]
           \/ toClient'[c][i].kind = "TransferStatus" =>
                NoneOpens(toTerm'[c]) /\ Held(c, toClient[c][i])'
  PROVE  AnswersHeld(c)'
<1>. SUFFICES ASSUME NEW i \in DOMAIN toClient'[c], toClient'[c][i].kind = "TransferStatus"
              PROVE  NoneOpens(toTerm'[c]) /\ Held(c, toClient[c][i])'
  BY DEF AnswersHeld
<1>1. ASSUME NEW j \in DOMAIN toClient[c], toClient'[c][i] = toClient[c][j]
      PROVE  NoneOpens(toTerm'[c]) /\ Held(c, toClient[c][i])'
  <2>. DEFINE m == toClient[c][j]
  <2>1. NoneOpens(toTerm[c]) /\ Held(c, m) /\ m.received \in Nat
    BY <1>1, StatusTyped DEF AnswersHeld
  <2>2. Grown(c)
    BY <1>1 DEF NoneTells
  <2>3. m.id \in StreamsOf(c)' /\ m.received <= files'[m.id].received
    BY <2>1, <2>2, HeldKept
  <2>. QED
    BY <1>1, <2>1, <2>3 DEF Held
<1>. QED
  BY <1>1

\* Sequences are served, received, read by the shell or lost.
Shortened(s, t) == t = s \/ (s # << >> /\ t = Tail(s))

LEMMA ShortenedPipes ==
  ASSUME Inv, Inv', NEW c \in Sources, RunInv(c), Grown(c),
         Shortened(toTerm[c], toTerm'[c]), Shortened(toClient[c], toClient'[c])
  PROVE  /\ AskInOrder(toTerm[c], StreamsOf(c))' /\ AnswersHeld(c)'
         /\ NoneOpens(toTerm[c]) => NoneOpens(toTerm[c])'
         /\ NoneAsks(toTerm[c]) => NoneAsks(toTerm[c])'
         /\ NoneTells(toClient[c]) => NoneTells(toClient[c])'
<1>1. /\ toTerm[c] \in Seq(Questions(c) \cup PacketsFor(c)) /\ toClient[c] \in Seq(Answers(c))
  BY DEF Inv, SourceInv, ChannelsInv
<1>2. AskInOrder(toTerm[c], StreamsOf(c)')
  BY DEF RunInv, AskInOrder, Grown
<1>3. /\ AskInOrder(toTerm'[c], StreamsOf(c)')
      /\ NoneOpens(toTerm[c]) => NoneOpens(toTerm'[c])
      /\ NoneAsks(toTerm[c]) => NoneAsks(toTerm'[c])
  BY <1>1, <1>2, TailInOrder DEF Shortened
<1>4. NoneTells(toClient[c]) => NoneTells(toClient'[c])
  BY <1>1, TailInOrder DEF Shortened
<1>5. \A i \in DOMAIN toClient'[c] : \E j \in DOMAIN toClient[c] : toClient'[c][i] = toClient[c][j]
  <2>1. CASE toClient'[c] = toClient[c]
    BY <2>1
  <2>2. CASE toClient[c] # << >> /\ toClient'[c] = Tail(toClient[c])
    BY <1>1, <2>2, TailTyped
  <2>. QED
    BY <2>1, <2>2 DEF Shortened
<1>6. AnswersHeld(c)'
  BY <1>3, <1>5, AnswersKept DEF RunInv
<1>. QED
  BY <1>3, <1>4, <1>6 DEF AskInOrder, NoneOpens, NoneAsks, NoneTells

\* What ropen waits for has not changed.
LEMMA PhaseKept ==
  ASSUME Inv, Inv', NEW c \in Sources, InPhase(c), Grown(c),
         UNCHANGED <<call[c], ropen[c]>>,
         NoneOpens(toTerm[c]) => NoneOpens(toTerm[c])',
         NoneAsks(toTerm[c]) => NoneAsks(toTerm[c])',
         NoneTells(toClient[c]) => NoneTells(toClient[c])'
  PROVE  InPhase(c)'
<1>1. call[c].phase \in {"caps", "open"} => NoneAsks(toTerm[c])' /\ NoneTells(toClient[c])'
  BY DEF InPhase
<1>2. ASSUME Answered(c, "status") PROVE NoneOpens(toTerm[c])' /\ Held(c, call[c].answer)'
  <2>. DEFINE m == call[c].answer
  <2>1. NoneOpens(toTerm[c]) /\ Held(c, m) /\ m.received \in Nat
    BY <1>2, StatusTyped DEF InPhase
  <2>2. m.id \in StreamsOf(c)' /\ m.received <= files'[m.id].received
    BY <2>1, HeldKept
  <2>. QED
    BY <2>1, <2>2 DEF Held
<1>3. ASSUME call[c].phase \in {"view", "done"}
      PROVE  /\ ropen[c].id \in StreamsOf(c)' /\ files'[ropen[c].id].received = Size[c]
             /\ Size[c] > 0 => NoneOpens(toTerm[c])'
  <2>1. /\ ropen[c].id \in StreamsOf(c) /\ files[ropen[c].id].received = Size[c]
        /\ Size[c] > 0 => NoneOpens(toTerm[c])
    BY <1>3 DEF InPhase
  <2>2. ropen[c].id \in StreamsOf(c)' /\ files'[ropen[c].id].received >= Size[c]
    BY <2>1 DEF Grown
  <2>3. files'[ropen[c].id].received <= Size[c] /\ files'[ropen[c].id].received \in Nat
    BY <2>2 DEF Inv, FilesInv, StreamsOf
  <2>4. Size[c] \in Nat
    BY TransferAssumption
  <2>. QED
    BY <2>1, <2>2, <2>3, <2>4
<1>. QED
  BY <1>1, <1>2, <1>3 DEF InPhase, Answered

LEMMA Undisturbed ==
  ASSUME Inv, Inv', NEW c \in Sources, RunInv(c), Grown(c), UNCHANGED <<call[c], ropen[c]>>,
         Shortened(toTerm[c], toTerm'[c]), Shortened(toClient[c], toClient'[c])
  PROVE  RunInv(c)'
BY ShortenedPipes, PhaseKept DEF RunInv

LEMMA RequestKinds ==
  ASSUME NEW c, NEW phase \in DOMAIN Expected, NEW id
  PROVE  /\ Request(c, phase, id).kind = "OpenFileTransfer" <=> phase = "open"
         /\ Request(c, phase, id).kind = "GetTransferStatus" <=> phase = "status"
         /\ phase = "status" => Request(c, phase, id).id = id
BY PhasesOfExpected DEF Request

\* A packet before the request, if there is one, and the request.
LEMMA TransmitInOrder ==
  ASSUME Inv, Inv', NEW c \in Sources, UNCHANGED <<files, toClient>>, RunInv(c),
         NEW phase \in DOMAIN Expected, NEW id, NEW packets,
         packets = << >> \/ \E d : d.kind = "Data" /\ packets = <<d>>,
         Transmit(c, phase, id, packets),
         phase = "open" => NoneAsks(toTerm[c]) /\ NoneTells(toClient[c]),
         phase = "status" => id \in StreamsOf(c)
  PROVE  /\ AskInOrder(toTerm[c], StreamsOf(c))' /\ AnswersHeld(c)'
         /\ NoneOpens(toTerm[c]) /\ phase # "open" => NoneOpens(toTerm[c])'
         /\ NoneAsks(toTerm[c]) /\ phase # "status" => NoneAsks(toTerm[c])'
<1>. DEFINE ks == StreamsOf(c)
            q == Request(c, phase, id)
            S == Questions(c) \cup PacketsFor(c)
            s == toTerm[c]
            t == s \o packets
<1>1. /\ s \in Seq(S) /\ OfSources(toTerm)
      /\ AskInOrder(s, ks) /\ StreamsOf(c)' = ks
  BY DEF Inv, SourceInv, ChannelsInv, RunInv, StreamsOf
<1>2. toTerm'[c] = t \o <<q>>
  BY <1>1 DEF Transmit, OfSources
<1>3. PICK T : t \in Seq(T)
  <2>1. CASE packets = << >>
    BY <1>1, <2>1
  <2>2. ASSUME NEW d, packets = <<d>> PROVE \E T : t \in Seq(T)
    <3>1. s \in Seq(S \cup {d})
      BY <1>1, SeqGrows
    <3>. QED
      BY <2>2, <3>1
  <2>. QED
    BY <2>1, <2>2
<1>4. /\ AskInOrder(t, ks)
      /\ NoneOpens(s) => NoneOpens(t)
      /\ NoneAsks(s) => NoneAsks(t)
  <2>1. CASE packets = << >>
    <3>1. t = s
      BY <1>1, <2>1
    <3>. QED
      BY <1>1, <3>1
  <2>2. ASSUME NEW d, d.kind = "Data", packets = <<d>> PROVE <1>4
    <3>1. t = Append(s, d)
      BY <1>1, <2>2
    <3>. HIDE DEF S, t
    <3>. QED
      BY <1>1, <2>2, <3>1, AppendInOrder
  <2>. QED
    BY <2>1, <2>2
<1>. HIDE DEF t, S
<1>5. toTerm'[c] = Append(t, q)
  BY <1>2, <1>3
<1>6. /\ q.kind = "OpenFileTransfer" <=> phase = "open"
      /\ q.kind = "GetTransferStatus" <=> phase = "status"
      /\ phase = "status" => q.id = id
  BY RequestKinds
<1>. HIDE DEF q, s
<1>7. /\ AskInOrder(toTerm'[c], ks)
      /\ NoneOpens(t) /\ phase # "open" => NoneOpens(toTerm'[c])
      /\ NoneAsks(t) /\ phase # "status" => NoneAsks(toTerm'[c])
  BY <1>3, <1>4, <1>5, <1>6, AppendInOrder DEF s
<1>8. Grown(c)
  BY SameGrown
<1>9. AnswersHeld(c)'
  <2>1. CASE phase = "open"
    BY <2>1 DEF AnswersHeld, NoneTells
  <2>2. CASE phase # "open"
    BY <1>4, <1>7, <1>8, <2>2, AnswersKept DEF RunInv, s
  <2>. QED
    BY <2>1, <2>2
<1>. QED
  BY <1>1, <1>4, <1>7, <1>9 DEF AskInOrder, NoneOpens, NoneAsks, s

-----------------------------------------------------------------------------
(* The steps of a run *)

LEMMA StartInOrder ==
  ASSUME Inv, Inv', NEW c \in Sources, Start(c), toTerm[c] = << >>, toClient[c] = << >>
  PROVE  RunInv(c)'
<1>1. /\ toTerm'[c] = << >> \o << >> \o <<[kind |-> "GetCapabilities"]>>
      /\ toClient'[c] = << >> /\ call'[c].phase = "caps" /\ call'[c].result = "wait"
  BY DEF Start, Transmit, Request, Inv, OfSources
<1>2. toTerm'[c] = <<[kind |-> "GetCapabilities"]>>
  BY <1>1
<1>3. \A i \in DOMAIN toTerm'[c] : toTerm'[c][i].kind = "GetCapabilities"
  BY <1>2
<1>4. \A i \in DOMAIN toClient'[c] : FALSE
  BY <1>1
<1>5. AskInOrder(toTerm[c], StreamsOf(c))' /\ AnswersHeld(c)' /\ NoneAsks(toTerm[c])'
  BY <1>3, <1>4 DEF AskInOrder, AnswersHeld, NoneAsks
<1>6. NoneTells(toClient[c])'
  BY <1>4 DEF NoneTells
<1>. QED
  BY <1>1, <1>5, <1>6 DEF RunInv, InPhase, Answered

LEMMA OpenLocalFileInOrder ==
  ASSUME Inv, Inv', NEW c \in Sources, RunInv(c), OpenLocalFile(c)
  PROVE  RunInv(c)'
<1>1. "open" \in DOMAIN Expected /\ call[c].phase = "caps"
  BY PhasesOfExpected DEF OpenLocalFile, Answered
<1>2. NoneAsks(toTerm[c]) /\ NoneTells(toClient[c])
  BY <1>1 DEF RunInv, InPhase
<1>3. UNCHANGED <<files, toClient>> /\ Transmit(c, "open", 0, << >>)
  BY DEF OpenLocalFile, filesVars
<1>4. AskInOrder(toTerm[c], StreamsOf(c))' /\ AnswersHeld(c)'
  BY <1>1, <1>2, <1>3, TransmitInOrder
<1>5. toTerm'[c] = toTerm[c] \o << >> \o <<Request(c, "open", 0)>> /\ call'[c].phase = "open" /\ call'[c].result = "wait"
  BY <1>3 DEF Transmit, Inv, OfSources
<1>6. NoneAsks(toTerm[c])'
  BY <1>1, <1>2, <1>3, TransmitInOrder
<1>7. NoneTells(toClient[c])'
  BY <1>2, <1>3 DEF NoneTells
<1>. QED
  BY <1>4, <1>5, <1>6, <1>7 DEF RunInv, InPhase, Answered

LEMMA BeginTransferInOrder ==
  ASSUME Inv, Inv', NEW c \in Sources, RunInv(c), BeginTransfer(c)
  PROVE  RunInv(c)'
<1>. DEFINE id == call[c].answer.id
<1>1. /\ id \in StreamsOf(c) /\ UNCHANGED <<files, toClient>>
      /\ call[c].phase = "open" /\ call[c].result = "none"
      /\ ropen'[c].id = id /\ "view" \in DOMAIN Expected
  BY PhasesOfExpected
     DEF BeginTransfer, Inv, SourceInv, RopenInv, OpenAcks, Answered, filesVars, OfSources, Ropens
<1>2. files[id].received \in Nat /\ files[id].received <= Size[c] /\ Size[c] \in Nat
  BY <1>1, TransferAssumption DEF StreamsOf, Inv, FilesInv
<1>3. CASE Size[c] = 0
  <2>1. Transmit(c, "view", id, << >>)
    BY <1>3 DEF BeginTransfer
  <2>. HIDE DEF id
  <2>2. AskInOrder(toTerm[c], StreamsOf(c))' /\ AnswersHeld(c)'
    BY <1>1, <2>1, TransmitInOrder
  <2>3. call'[c].phase = "view" /\ call'[c].result = "wait"
    BY <2>1 DEF Transmit, Inv, OfSources
  <2>4. files'[id].received = Size[c] /\ id \in StreamsOf(c)'
    BY <1>1, <1>2, <1>3 DEF StreamsOf
  <2>. QED
    BY <1>1, <1>3, <2>2, <2>3, <2>4 DEF RunInv, InPhase, Answered
<1>4. CASE Size[c] # 0
  <2>1. call' = [call EXCEPT ![c].phase = "data"] /\ UNCHANGED toTerm
    BY <1>4 DEF BeginTransfer
  <2>2. call'[c].phase = "data"
    BY <2>1 DEF Inv, OfSources, SourceInv, RopenInv, Calls
  <2>3. Grown(c)
    BY <1>1, SameGrown
  <2>4. AskInOrder(toTerm[c], StreamsOf(c))' /\ AnswersHeld(c)'
    BY <1>1, <2>1, <2>3, ShortenedPipes DEF Shortened
  <2>. QED
    BY <2>2, <2>4 DEF RunInv, InPhase, Answered
<1>. QED
  BY <1>3, <1>4

LEMMA SendPacketInOrder ==
  ASSUME Inv, Inv', NEW c \in Sources, RunInv(c), SendPacket(c)
  PROVE  RunInv(c)'
<1>. DEFINE r == ropen[c]
            len == IF r.eof THEN 0 ELSE Min({PacketSize, Size[c] - r.pos})
            data == [kind |-> "Data", id |-> r.id, packet |-> r.sent, from |-> r.pos, len |-> len]
<1>1. call[c].phase = "data" /\ UNCHANGED <<files, toClient>>
  BY DEF SendPacket, filesVars
<1>2. \/ Transmit(c, "status", r.id, <<data>>)
      \/ toTerm' = [toTerm EXCEPT ![c] = Append(@, data)] /\ UNCHANGED call
  BY DEF SendPacket
<1>3. data.kind = "Data"
  OBVIOUS
<1>. HIDE DEF data
<1>4. r.id \in StreamsOf(c)
  BY <1>1 DEF Inv, SourceInv, RopenInv
<1>5. Grown(c)
  BY <1>1, SameGrown
<1>6. CASE Transmit(c, "status", r.id, <<data>>)
  <2>1. AskInOrder(toTerm[c], StreamsOf(c))' /\ AnswersHeld(c)'
    BY <1>1, <1>3, <1>4, <1>6, PhasesOfExpected, TransmitInOrder
  <2>2. call'[c].phase = "status" /\ call'[c].result = "wait"
    BY <1>6 DEF Transmit, Inv, OfSources
  <2>. QED
    BY <2>1, <2>2 DEF RunInv, InPhase, Answered
<1>7. CASE toTerm' = [toTerm EXCEPT ![c] = Append(@, data)] /\ UNCHANGED call
  <2>. DEFINE s == toTerm[c]
  <2>1. /\ s \in Seq(Questions(c) \cup PacketsFor(c)) /\ AskInOrder(s, StreamsOf(c))
        /\ StreamsOf(c)' = StreamsOf(c) /\ toTerm'[c] = Append(s, data)
    BY <1>1, <1>7 DEF Inv, OfSources, SourceInv, ChannelsInv, RunInv, StreamsOf
  <2>. HIDE DEF s
  <2>2. AskInOrder(toTerm'[c], StreamsOf(c)) /\ (NoneOpens(s) => NoneOpens(toTerm'[c]))
    BY <1>3, <2>1, AppendInOrder
  <2>3. AnswersHeld(c)'
    BY <1>1, <1>5, <2>2, AnswersKept DEF RunInv, s
  <2>4. AskInOrder(toTerm[c], StreamsOf(c))'
    BY <2>1, <2>2 DEF AskInOrder
  <2>. QED
    BY <1>1, <1>7, <2>3, <2>4 DEF RunInv, InPhase, Answered
<1>. QED
  BY <1>2, <1>6, <1>7

LEMMA CheckTransferStatusInOrder ==
  ASSUME Inv, Inv', NEW c \in Sources, RunInv(c), CheckTransferStatus(c)
  PROVE  RunInv(c)'
<1>. DEFINE received == call[c].answer.received
            r == IF received = ropen[c].sent THEN Confirmed(ropen[c]) ELSE Rewound(ropen[c], received)
<1>1. /\ call[c].phase = "status" /\ Answered(c, "status") /\ UNCHANGED <<files, toClient>>
      /\ ropen[c] \in Ropens /\ ropen[c].id \in StreamsOf(c) /\ ropen' = [ropen EXCEPT ![c] = r]
      /\ call[c].answer.id = ropen[c].id /\ OfSources(ropen)
  BY DEF CheckTransferStatus, Answered, filesVars, Inv, SourceInv, RopenInv
<1>2. r.id = ropen[c].id /\ r.sent = received
  BY <1>1 DEF Ropens, Confirmed, Rewound
<1>3. IF r.sent = Size[c] THEN Transmit(c, "view", r.id, << >>)
      ELSE call' = [call EXCEPT ![c].phase = "data"] /\ UNCHANGED toTerm
  BY DEF CheckTransferStatus
<1>. HIDE DEF r
<1>4. ropen'[c].id = ropen[c].id /\ Grown(c)
  BY <1>1, <1>2, SameGrown DEF OfSources
<1>5. NoneOpens(toTerm[c]) /\ received <= files[ropen[c].id].received
  BY <1>1 DEF RunInv, InPhase, Held
<1>6. /\ files[ropen[c].id].received \in Nat /\ files[ropen[c].id].received <= Size[c]
      /\ Size[c] \in Nat /\ received \in Nat
  BY <1>1, StatusTyped, TransferAssumption DEF StreamsOf, Inv, FilesInv
<1>7. CASE r.sent = Size[c]
  <2>1. Transmit(c, "view", r.id, << >>) /\ "view" \in DOMAIN Expected
    BY <1>3, <1>7, PhasesOfExpected
  <2>2. /\ AskInOrder(toTerm[c], StreamsOf(c))' /\ AnswersHeld(c)' /\ NoneOpens(toTerm[c])'
    BY <1>1, <1>5, <2>1, TransmitInOrder
  <2>3. call'[c].phase = "view" /\ call'[c].result = "wait"
    BY <2>1 DEF Transmit, Inv, OfSources
  <2>4. files'[ropen[c].id].received = Size[c] /\ ropen[c].id \in StreamsOf(c)'
    BY <1>1, <1>2, <1>5, <1>6, <1>7 DEF StreamsOf
  <2>. QED
    BY <1>4, <2>2, <2>3, <2>4 DEF RunInv, InPhase, Answered
<1>8. CASE r.sent # Size[c]
  <2>1. call' = [call EXCEPT ![c].phase = "data"] /\ UNCHANGED toTerm
    BY <1>3, <1>8
  <2>2. call'[c].phase = "data"
    BY <2>1 DEF Inv, OfSources, SourceInv, RopenInv, Calls
  <2>3. AskInOrder(toTerm[c], StreamsOf(c))' /\ AnswersHeld(c)'
    BY <1>1, <1>4, <2>1, ShortenedPipes DEF Shortened
  <2>. QED
    BY <2>2, <2>3 DEF RunInv, InPhase, Answered
<1>. QED
  BY <1>7, <1>8

LEMMA FinishInOrder ==
  ASSUME Inv, Inv', NEW c \in Sources, RunInv(c), Finish(c)
  PROVE  RunInv(c)'
<1>1. /\ call[c].phase = "view" /\ UNCHANGED <<files, ropen, toTerm, toClient>>
      /\ call' = [call EXCEPT ![c].phase = "done"]
  BY DEF Finish, Answered, filesVars
<1>2. call'[c].phase = "done" /\ Grown(c)
  BY <1>1, SameGrown DEF Inv, OfSources, SourceInv, RopenInv, Calls
<1>3. AskInOrder(toTerm[c], StreamsOf(c))' /\ AnswersHeld(c)'
  BY <1>1, <1>2, ShortenedPipes DEF Shortened
<1>. QED
  BY <1>1, <1>2, <1>3 DEF RunInv, InPhase, Answered, StreamsOf, NoneOpens

LEMMA ResendInOrder ==
  ASSUME Inv, Inv', NEW c \in Sources, RunInv(c), Resend(c)
  PROVE  RunInv(c)'
<1>. DEFINE s == toTerm[c]
            phase == call[c].phase
            q == Request(c, phase, ropen[c].id)
<1>1. /\ UNCHANGED <<files, ropen, toClient>> /\ phase \in DOMAIN Expected
      /\ call' = [call EXCEPT ![c].attempts = @ - 1] /\ toTerm' = [toTerm EXCEPT ![c] = Append(@, q)]
  BY DEF Resend, TimedOut, Waiting, filesVars
<1>2. /\ s \in Seq(Questions(c) \cup PacketsFor(c)) /\ AskInOrder(s, StreamsOf(c))
      /\ StreamsOf(c)' = StreamsOf(c) /\ toTerm'[c] = Append(s, q)
  BY <1>1 DEF Inv, OfSources, SourceInv, ChannelsInv, RunInv, StreamsOf
<1>3. /\ q.kind = "OpenFileTransfer" <=> phase = "open"
      /\ q.kind = "GetTransferStatus" <=> phase = "status"
      /\ phase = "status" => q.id \in StreamsOf(c)
  BY <1>1, RequestKinds DEF Inv, SourceInv, RopenInv
<1>4. phase \in {"caps", "open"} => NoneAsks(s) /\ NoneTells(toClient[c])
  BY DEF RunInv, InPhase
<1>5. /\ call'[c].phase = phase /\ call'[c].result = call[c].result /\ call'[c].answer = call[c].answer
      /\ Grown(c)
  BY <1>1, SameGrown DEF Inv, OfSources, SourceInv, RopenInv, Calls
<1>. HIDE DEF q
<1>6. /\ AskInOrder(toTerm'[c], StreamsOf(c))
      /\ NoneOpens(s) /\ phase # "open" => NoneOpens(toTerm'[c])
      /\ NoneAsks(s) /\ phase # "status" => NoneAsks(toTerm'[c])
  BY <1>2, <1>3, <1>4, AppendInOrder
<1>7. AnswersHeld(c)'
  <2>1. CASE phase = "open"
    BY <1>1, <1>4, <2>1 DEF AnswersHeld, NoneTells
  <2>2. CASE phase # "open"
    BY <1>1, <1>5, <1>6, <2>2, AnswersKept DEF RunInv
  <2>. QED
    BY <2>1, <2>2
<1>8. AskInOrder(toTerm[c], StreamsOf(c))'
  BY <1>2, <1>6 DEF AskInOrder
<1>9. InPhase(c)'
  BY <1>1, <1>2, <1>4, <1>5, <1>6 DEF RunInv, InPhase, Answered, Held, NoneOpens, NoneAsks, NoneTells
<1>. QED
  BY <1>7, <1>8, <1>9 DEF RunInv

LEMMA ReceiveInOrder ==
  ASSUME Inv, Inv', NEW c \in Sources, RunInv(c), Receive(c), call'[c].phase # "crashed"
  PROVE  RunInv(c)'
<1>. DEFINE m == Head(toClient[c])
<1>1. /\ UNCHANGED <<files, ropen, toTerm>> /\ toClient[c] # << >> /\ Running(c)
      /\ toClient' = [toClient EXCEPT ![c] = Tail(@)]
      /\ call' = [call EXCEPT ![c] =
           IF Matches(c, m) THEN [@ EXCEPT !.answer = m, !.result = IF m.kind = "Nack" THEN "nack" ELSE "none"]
           ELSE [@ EXCEPT !.phase = "crashed"]]
  BY DEF Receive, filesVars
<1>2. /\ OfSources(call) /\ OfSources(toClient) /\ call[c] \in Calls(c)
      /\ toClient[c] \in Seq(Answers(c))
  BY DEF Inv, SourceInv, RopenInv, ChannelsInv
<1>3. Matches(c, m)
  <2>1. ~ Matches(c, m) => call'[c].phase = "crashed"
    BY <1>1, <1>2 DEF Calls, OfSources
  <2>. QED
    BY <2>1
<1>4. /\ call'[c].phase = call[c].phase /\ call'[c].answer = m
      /\ call'[c].result = IF m.kind = "Nack" THEN "nack" ELSE "none"
  BY <1>1, <1>2, <1>3 DEF Calls, OfSources
<1>5. Grown(c) /\ Shortened(toTerm[c], toTerm'[c]) /\ Shortened(toClient[c], toClient'[c])
  BY <1>1, <1>2, SameGrown DEF Shortened, OfSources
<1>6. AskInOrder(toTerm[c], StreamsOf(c))' /\ AnswersHeld(c)'
      /\ (NoneTells(toClient[c]) => NoneTells(toClient[c])')
  BY <1>5, ShortenedPipes
<1>7. ASSUME Answered(c, "status")' PROVE NoneOpens(toTerm[c])' /\ Held(c, call[c].answer)'
  <2>1. m.kind = "TransferStatus"
    BY <1>3, <1>4, <1>7 DEF Answered, Matches, Expected
  <2>2. m = toClient[c][1] /\ 1 \in DOMAIN toClient[c]
    BY <1>1, <1>2, TailTyped
  <2>3. NoneOpens(toTerm[c]) /\ Held(c, m)
    BY <2>1, <2>2 DEF RunInv, AnswersHeld
  <2>. QED
    BY <1>1, <1>4, <2>3 DEF Held, StreamsOf, NoneOpens
<1>8. call'[c].phase \in {"caps", "open"} => NoneAsks(toTerm[c])' /\ NoneTells(toClient[c])'
  BY <1>1, <1>4, <1>6 DEF RunInv, InPhase, NoneAsks
<1>9. call'[c].phase \in {"view", "done"} =>
        /\ ropen'[c].id \in StreamsOf(c)' /\ files'[ropen'[c].id].received = Size[c]
        /\ Size[c] > 0 => NoneOpens(toTerm[c])'
  BY <1>1, <1>4 DEF RunInv, InPhase, StreamsOf, NoneOpens
<1>. QED
  BY <1>6, <1>7, <1>8, <1>9 DEF RunInv, InPhase

-----------------------------------------------------------------------------
(* The terminal's steps *)

\* Of other files than c's nothing is reset when c is opened.
LEMMA OpenGrows ==
  ASSUME Inv, Inv', NEW c \in Sources, NEW s \in Sources, s # c, NEW id,
         RF!OpenFileTransfer(s, id) \/ RF!OpenRefused(s, id)
  PROVE  Grown(c)
<1>1. /\ id \in DOMAIN files => files[id].source = s
      /\ DOMAIN files' = DOMAIN files \cup {id}
      /\ \A k \in DOMAIN files : k # id => files'[k] = files[k]
  BY DEF RF!OpenFileTransfer, RF!OpenRefused, RF!FileOf, RF!StreamsOf, RF!IsNewId
<1>2. \A k \in DOMAIN files : files[k].received \in Nat
  BY DEF Inv, FilesInv
<1>. QED
  BY <1>1, <1>2 DEF Grown, StreamsOf

\* A packet adds to what was received, or is dropped.
LEMMA TransferGrows ==
  ASSUME Inv, Inv', NEW c \in Sources, NEW d \in Sources, NEW data \in PacketsFor(d), RF!Transfer(data)
  PROVE  Grown(c)
<1>. DEFINE f == files[data.id]
            total == f.received + data.len
<1>1. data.id \in DOMAIN files /\ data.len \in Nat
  BY TransferAssumption DEF PacketsFor, StreamsOf
<1>2. \A k \in DOMAIN files : /\ files[k] \in [source : Sources, received : Nat, path : RF!Paths, isOpen : BOOLEAN]
                              /\ files[k].received \in Nat
  BY DEF Inv, FilesInv
<1>3. CASE f.received # data.packet
  BY <1>3, SameGrown DEF RF!Transfer, RF!vars
<1>4. CASE f.received = data.packet
  <2>1. files' = [files EXCEPT ![data.id].received = total, ![data.id].isOpen = @ /\ total # Size[f.source]]
    BY <1>4 DEF RF!Transfer
  <2>2. /\ DOMAIN files' = DOMAIN files
        /\ \A k \in DOMAIN files : files'[k].source = files[k].source
                                   /\ (k # data.id => files'[k].received = files[k].received)
        /\ files'[data.id].received = total
    BY <1>1, <1>2, <2>1
  <2>3. total >= f.received
    BY <1>1, <1>2
  <2>. HIDE DEF total, f
  <2>4. ASSUME NEW k \in StreamsOf(c)
        PROVE  k \in StreamsOf(c)' /\ files'[k].received >= files[k].received
    <3>1. k \in DOMAIN files /\ files[k].source = c
      BY <2>4 DEF StreamsOf
    <3>. QED
      BY <1>2, <2>2, <2>3, <3>1 DEF StreamsOf, f
  <2>. QED
    BY <2>4 DEF Grown
<1>. QED
  BY <1>3, <1>4

\* A request is served, and its answer is a.
LEMMA ServedInOrder ==
  ASSUME Inv, Inv', NEW c \in Sources, RunInv(c), Grown(c), UNCHANGED <<call[c], ropen[c]>>,
         toTerm[c] # << >>, toTerm'[c] = Tail(toTerm[c]),
         NEW a, toClient'[c] = Append(toClient[c], a),
         a.kind = "TransferStatus" =>
           /\ NoneOpens(toTerm'[c]) /\ ~ NoneAsks(toTerm[c])
           /\ a.id \in StreamsOf(c)' /\ a.received <= files'[a.id].received
  PROVE  RunInv(c)'
<1>. DEFINE S == Questions(c) \cup PacketsFor(c)
<1>1. toTerm[c] \in Seq(S) /\ toClient[c] \in Seq(Answers(c))
  BY DEF Inv, SourceInv, ChannelsInv
<1>2. AskInOrder(toTerm[c], StreamsOf(c)')
  BY DEF RunInv, AskInOrder, Grown
<1>. HIDE DEF S
<1>3. /\ AskInOrder(toTerm'[c], StreamsOf(c)')
      /\ NoneOpens(toTerm[c]) => NoneOpens(toTerm'[c])
      /\ NoneAsks(toTerm[c]) => NoneAsks(toTerm'[c])
  BY <1>1, <1>2, TailInOrder
<1>4. \A i \in DOMAIN toClient'[c] : \/ i \in DOMAIN toClient[c] /\ toClient'[c][i] = toClient[c][i]
                                     \/ toClient'[c][i] = a
  BY <1>1, AppendTyped
<1>5. AnswersHeld(c)'
  <2>1. \A i \in DOMAIN toClient'[c] :
          \/ \E j \in DOMAIN toClient[c] : toClient'[c][i] = toClient[c][j]
          \/ toClient'[c][i].kind = "TransferStatus" =>
               NoneOpens(toTerm'[c]) /\ Held(c, toClient[c][i])'
    BY <1>4 DEF Held
  <2>. QED
    BY <1>3, <2>1, AnswersKept DEF RunInv
<1>6. InPhase(c)'
  <2>1. call[c].phase \in {"caps", "open"} => NoneTells(toClient'[c])
    BY <1>4 DEF RunInv, InPhase, NoneTells
  <2>2. call[c].phase \in {"caps", "open"} => NoneAsks(toTerm[c])' /\ NoneTells(toClient[c])'
    BY <1>3, <2>1 DEF RunInv, InPhase, NoneAsks, NoneTells
  <2>3. ASSUME Answered(c, "status") PROVE NoneOpens(toTerm[c])' /\ Held(c, call[c].answer)'
    <3>. DEFINE m == call[c].answer
    <3>1. NoneOpens(toTerm[c]) /\ Held(c, m) /\ m.received \in Nat
      BY <2>3, StatusTyped DEF RunInv, InPhase
    <3>2. m.id \in StreamsOf(c)' /\ m.received <= files'[m.id].received
      BY <3>1, HeldKept
    <3>. QED
      BY <1>3, <3>1, <3>2 DEF Held, NoneOpens
  <2>4. ASSUME call[c].phase \in {"view", "done"}
        PROVE  /\ ropen[c].id \in StreamsOf(c)' /\ files'[ropen[c].id].received = Size[c]
               /\ Size[c] > 0 => NoneOpens(toTerm[c])'
    <3>1. /\ ropen[c].id \in StreamsOf(c) /\ files[ropen[c].id].received = Size[c]
          /\ Size[c] > 0 => NoneOpens(toTerm[c])
      BY <2>4 DEF RunInv, InPhase
    <3>2. ropen[c].id \in StreamsOf(c)' /\ files'[ropen[c].id].received >= Size[c]
      BY <3>1 DEF Grown
    <3>3. files'[ropen[c].id].received <= Size[c] /\ files'[ropen[c].id].received \in Nat
      BY <3>2 DEF Inv, FilesInv, StreamsOf
    <3>4. Size[c] \in Nat
      BY TransferAssumption
    <3>. QED
      BY <1>3, <3>1, <3>2, <3>3, <3>4 DEF NoneOpens
  <2>. QED
    BY <2>2, <2>3, <2>4 DEF InPhase, Answered
<1>. QED
  BY <1>3, <1>5, <1>6 DEF RunInv, AskInOrder

\* The request to open is in no run behind a question for the status: what it
\* resets has not been told to anyone.
LEMMA ServeOpenInOrder ==
  ASSUME Inv, Inv', NEW c \in Sources, RunInv(c), FilesGrow, UNCHANGED <<call[c], ropen[c]>>,
         toTerm[c] # << >>, toTerm'[c] = Tail(toTerm[c]), Head(toTerm[c]).kind = "OpenFileTransfer",
         \/ toClient'[c] = toClient[c]
         \/ \E a : a.kind = "Ack" /\ toClient'[c] = Append(toClient[c], a)
  PROVE  RunInv(c)'
<1>. DEFINE S == Questions(c) \cup PacketsFor(c)
<1>1. toTerm[c] \in Seq(S) /\ toClient[c] \in Seq(Answers(c))
  BY DEF Inv, SourceInv, ChannelsInv
<1>2. AskInOrder(toTerm[c], StreamsOf(c)')
  BY SetsGrow DEF RunInv, AskInOrder
<1>. HIDE DEF S
<1>3. ~ NoneOpens(toTerm[c])
  BY <1>1, TailTyped DEF NoneOpens
<1>4. /\ AskInOrder(toTerm'[c], StreamsOf(c)')
      /\ NoneAsks(toTerm[c]) => NoneAsks(toTerm'[c])
  BY <1>1, <1>2, TailInOrder
<1>5. NoneTells(toClient[c])
  BY <1>3 DEF RunInv, AnswersHeld, NoneTells
<1>6. NoneTells(toClient'[c])
  BY <1>1, <1>5, AppendTyped DEF NoneTells
<1>7. ~ Answered(c, "status")
  BY <1>3 DEF RunInv, InPhase
<1>8. ASSUME call[c].phase \in {"view", "done"}
      PROVE  /\ ropen[c].id \in StreamsOf(c)' /\ files'[ropen[c].id].received = Size[c]
             /\ ~ Size[c] > 0
  <2>1. ~ Size[c] > 0 /\ Size[c] \in Nat
    BY <1>3, <1>8, TransferAssumption DEF RunInv, InPhase
  <2>2. ropen[c].id \in StreamsOf(c)'
    BY <1>8, SetsGrow DEF RunInv, InPhase
  <2>3. files'[ropen[c].id].received <= Size[c] /\ files'[ropen[c].id].received \in Nat
    BY <2>2 DEF Inv, FilesInv, StreamsOf
  <2>. QED
    BY <2>1, <2>2, <2>3
<1>9. AnswersHeld(c)'
  BY <1>6 DEF AnswersHeld, NoneTells
<1>10. InPhase(c)'
  BY <1>4, <1>6, <1>7, <1>8 DEF RunInv, InPhase, Answered, NoneAsks, NoneTells
<1>. QED
  BY <1>4, <1>9, <1>10 DEF RunInv, AskInOrder

LEMMA ServeInOrder ==
  ASSUME Inv, Inv', NEW c \in Sources, Serve(c)
  PROVE  /\ RunInv(c) => RunInv(c)'
         /\ \A d \in Sources \ {c} : /\ UNCHANGED <<call[d], ropen[d], toTerm[d], toClient[d]>>
                                     /\ Grown(d)
<1>. DEFINE m == Head(toTerm[c])
<1>1. /\ toTerm[c] \in Seq(Questions(c) \cup PacketsFor(c)) /\ OfSources(toTerm) /\ OfSources(toClient)
  BY DEF Inv, SourceInv, ChannelsInv
<1>2. /\ toTerm[c] # << >> /\ toTerm' = [toTerm EXCEPT ![c] = Tail(@)] /\ UNCHANGED <<call, ropen>>
      /\ \/ ServeCapabilities(c, m) \/ ServeOpen(c, m) \/ ServeData(c, m)
         \/ ServeStatus(c, m) \/ ServeView(c, m)
  BY DEF Serve
<1>3. m \in Questions(c) \cup PacketsFor(c) /\ toTerm'[c] = Tail(toTerm[c])
  BY <1>1, <1>2 DEF OfSources
<1>4. UNCHANGED toClient \/ \E a : toClient' = [toClient EXCEPT ![c] = Append(@, a)]
  BY <1>2 DEF ServeCapabilities, ServeOpen, ServeData, ServeStatus, ServeView, Reply
<1>5. \A d \in Sources \ {c} : UNCHANGED <<call[d], ropen[d], toTerm[d], toClient[d]>>
  BY <1>1, <1>2, <1>4 DEF OfSources
<1>6. m = toTerm[c][1] /\ 1 \in DOMAIN toTerm[c]
  BY <1>1, <1>2, TailTyped
<1>. HIDE DEF m
<1>7. CASE UNCHANGED files /\ m.kind # "GetTransferStatus"
           /\ \E a : a.kind # "TransferStatus" /\ toClient' = [toClient EXCEPT ![c] = Append(@, a)]
  <2>1. \A d \in Sources : Grown(d)
    BY <1>7, SameGrown
  <2>2. PICK a : a.kind # "TransferStatus" /\ toClient'[c] = Append(toClient[c], a)
    BY <1>1, <1>7 DEF OfSources
  <2>3. RunInv(c) => RunInv(c)'
    BY <1>2, <1>3, <2>1, <2>2, ServedInOrder
  <2>. QED
    BY <1>5, <2>1, <2>3
<1>8. CASE ServeCapabilities(c, m)
  <2>1. [kind |-> "Capabilities"].kind # "TransferStatus"
    OBVIOUS
  <2>. QED
    BY <1>7, <1>8, <2>1 DEF ServeCapabilities, Reply, filesVars
<1>9. CASE ServeView(c, m)
  <2>1. /\ [kind |-> "Ack", request |-> m, id |-> m.id].kind # "TransferStatus"
        /\ [kind |-> "Nack", request |-> m].kind # "TransferStatus"
    OBVIOUS
  <2>2. UNCHANGED files
    BY <1>9 DEF ServeView, RF!View, RF!StartViewer, RF!vars, filesVars
  <2>. QED
    BY <1>7, <1>9, <2>1, <2>2 DEF ServeView, Reply
<1>10. CASE ServeOpen(c, m)
  <2>1. m.kind = "OpenFileTransfer" /\ m.source = c
    BY <1>3, <1>10 DEF ServeOpen, Questions, PacketsFor
  <2>2. PICK id \in 1..MaxOpens : /\ RF!OpenFileTransfer(c, id)
                                  /\ toClient' = [toClient EXCEPT ![c] = Append(@, [kind |-> "Ack", request |-> m, id |-> id])]
    BY <1>10, <2>1 DEF ServeOpen, Reply
  <2>3. \A d \in Sources \ {c} : Grown(d)
    BY <2>2, OpenGrows
  <2>4. FilesGrow
    BY <2>2 DEF FilesGrow, RF!OpenFileTransfer, RF!FileOf, RF!StreamsOf, RF!IsNewId, RF!Opened
  <2>5. [kind |-> "Ack", request |-> m, id |-> id].kind = "Ack"
    OBVIOUS
  <2>6. toClient'[c] = Append(toClient[c], [kind |-> "Ack", request |-> m, id |-> id])
    BY <1>1, <2>2 DEF OfSources
  <2>7. RunInv(c) => RunInv(c)'
    BY <1>2, <1>3, <2>1, <2>4, <2>5, <2>6, ServeOpenInOrder DEF m
  <2>. QED
    BY <1>5, <2>3, <2>7
<1>11. CASE ServeData(c, m)
  <2>1. m \in PacketsFor(c) /\ RF!Transfer(m) /\ UNCHANGED toClient
    BY <1>3, <1>11 DEF ServeData, Questions
  <2>2. \A d \in Sources : Grown(d)
    BY <2>1, TransferGrows
  <2>3. RunInv(c) => RunInv(c)'
    BY <1>2, <1>3, <2>1, <2>2, Undisturbed DEF Shortened
  <2>. QED
    BY <1>5, <2>2, <2>3
<1>12. CASE ServeStatus(c, m)
  <2>1. UNCHANGED files /\ m.kind = "GetTransferStatus"
    BY <1>12 DEF ServeStatus, filesVars
  <2>2. \A d \in Sources : Grown(d)
    BY <2>1, SameGrown
  <2>3. ASSUME RunInv(c) PROVE RunInv(c)'
    <3>1. /\ ~ NoneAsks(toTerm[c]) /\ m.id \in StreamsOf(c)
          /\ \A j \in DOMAIN toTerm[c] : 1 < j => toTerm[c][j].kind # "OpenFileTransfer"
      BY <1>6, <2>1, <2>3 DEF RunInv, AskInOrder, NoneAsks
    <3>2. \A i \in DOMAIN Tail(toTerm[c]) : i + 1 \in DOMAIN toTerm[c] /\ 1 < i + 1
                                            /\ Tail(toTerm[c])[i] = toTerm[c][i + 1]
      <4>1. \A i \in DOMAIN Tail(toTerm[c]) : i \in Nat /\ i >= 1
        BY <1>1, <1>2
      <4>2. \A i \in DOMAIN Tail(toTerm[c]) : 1 < i + 1
        BY <4>1
      <4>. QED
        BY <1>1, <1>2, <4>2, TailTyped
    <3>3. NoneOpens(toTerm'[c])
      BY <1>3, <3>1, <3>2 DEF NoneOpens
    <3>4. m.id \in DOMAIN files /\ m.id \in StreamsOf(c)' /\ files' = files
      BY <2>1, <3>1 DEF StreamsOf
    <3>. DEFINE a == [kind |-> "TransferStatus", id |-> m.id, received |-> files[m.id].received]
    <3>5. toClient'[c] = Append(toClient[c], a)
      BY <1>1, <1>12, <3>4 DEF ServeStatus, Reply, StatusOf, OfSources
    <3>6. a.id = m.id /\ a.received = files'[m.id].received /\ a.received \in Nat
      BY <3>4 DEF Inv, FilesInv
    <3>. HIDE DEF a
    <3>7. a.id \in StreamsOf(c)' /\ a.received <= files'[a.id].received
      BY <3>4, <3>6
    <3>. QED
      BY <1>2, <1>3, <2>2, <2>3, <3>1, <3>3, <3>5, <3>7, ServedInOrder
  <2>. QED
    BY <1>5, <2>2, <2>3
<1>. QED
  BY <1>2, <1>8, <1>9, <1>10, <1>11, <1>12

LEMMA ServeRefusedInOrder ==
  ASSUME Inv, Inv', NEW c \in Sources, ServeRefused(c)
  PROVE  /\ RunInv(c) => RunInv(c)'
         /\ \A d \in Sources \ {c} : /\ UNCHANGED <<call[d], ropen[d], toTerm[d], toClient[d]>>
                                     /\ Grown(d)
<1>. DEFINE m == Head(toTerm[c])
<1>1. /\ toTerm[c] \in Seq(Questions(c) \cup PacketsFor(c)) /\ OfSources(toTerm) /\ FilesInv
  BY DEF Inv, SourceInv, ChannelsInv
<1>2. /\ toTerm[c] # << >> /\ toTerm' = [toTerm EXCEPT ![c] = Tail(@)]
      /\ UNCHANGED <<call, ropen, toClient>> /\ m.kind = "OpenFileTransfer"
  BY DEF ServeRefused
<1>3. m \in Questions(c) \cup PacketsFor(c) /\ toTerm'[c] = Tail(toTerm[c])
      /\ \A d \in Sources \ {c} : toTerm'[d] = toTerm[d]
  BY <1>1, <1>2 DEF OfSources
<1>4. m.source = c
  BY <1>2, <1>3 DEF Questions, PacketsFor
<1>5. PICK id \in 1..MaxOpens : RF!OpenRefused(c, id)
  BY <1>4 DEF ServeRefused
<1>6. FilesGrow
  BY <1>1, <1>5, RefusalOfFiles
<1>7. \A d \in Sources \ {c} : Grown(d)
  BY <1>5, OpenGrows
<1>. QED
  BY <1>2, <1>3, <1>6, <1>7, ServeOpenInOrder

LEMMA CleanStep ==
  ASSUME Inv, Inv', CleanInv, [Next]_vars
  PROVE  CleanInv'
<1>1. /\ OfSources(clean) /\ OfSources(call) /\ OfSources(ropen) /\ OfSources(toTerm) /\ OfSources(toClient)
      /\ \A c \in Sources : OnCourse(c) => RunInv(c)
  BY DEF CleanInv, Inv
\* Of c only, of the files nothing or what leaves those of the others alone.
<1>2. ASSUME NEW c \in Sources, UNCHANGED clean, OnCourse(c)' => OnCourse(c),
             OnCourse(c)' /\ RunInv(c) => RunInv(c)',
             \A d \in Sources \ {c} : /\ UNCHANGED <<call[d], ropen[d], toTerm[d], toClient[d]>>
                                      /\ Grown(d)
      PROVE  CleanInv'
  <2>1. ASSUME NEW d \in Sources \ {c}, OnCourse(d)' PROVE RunInv(d)'
    <3>1. OnCourse(d)
      BY <1>2, <2>1 DEF OnCourse, Running, Waiting
    <3>. QED
      BY <1>1, <1>2, <2>1, <3>1, Undisturbed DEF Shortened
  <2>. QED
    BY <1>1, <1>2, <2>1 DEF CleanInv, OfSources
<1>3. ASSUME NEW c \in Sources, UNCHANGED files,
             Start(c) \/ Main(c) \/ Receive(c) \/ Interrupted(c) \/ LoseRequest(c) \/ LoseAnswer(c) \/ ShellReads(c)
      PROVE  \A d \in Sources \ {c} : /\ UNCHANGED <<call[d], ropen[d], toTerm[d], toClient[d]>>
                                      /\ Grown(d)
  <2>1. \A d \in Sources : Grown(d)
    BY <1>3, SameGrown
  <2>2. \A d \in Sources \ {c} : UNCHANGED <<call[d], ropen[d], toTerm[d], toClient[d]>>
    BY <1>1, <1>3 DEF OfSources, Main, Start, OpenLocalFile, BeginTransfer, SendPacket, CheckTransferStatus,
                      Finish, Resend, GiveUp, Receive, Interrupted, LoseRequest, LoseAnswer, ShellReads, Transmit
  <2>. QED
    BY <2>1, <2>2
<1>4. ASSUME NEW c \in Sources, Start(c) PROVE CleanInv'
  <2>1. /\ UNCHANGED files /\ clean' = [clean EXCEPT ![c] = toTerm[c] = << >> /\ toClient[c] = << >>]
    BY <1>4 DEF Start, filesVars
  <2>2. clean'[c] => RunInv(c)'
    BY <1>1, <1>4, <2>1, StartInOrder DEF OfSources
  <2>3. ASSUME NEW d \in Sources \ {c}, OnCourse(d)' PROVE RunInv(d)'
    <3>1. UNCHANGED <<call[d], ropen[d], toTerm[d], toClient[d]>> /\ Grown(d) /\ clean'[d] = clean[d]
      BY <1>1, <1>3, <1>4, <2>1 DEF OfSources
    <3>2. OnCourse(d)
      BY <2>3, <3>1 DEF OnCourse, Running, Waiting
    <3>. QED
      BY <1>1, <3>1, <3>2, Undisturbed DEF Shortened
  <2>. QED
    BY <1>1, <2>1, <2>2, <2>3 DEF CleanInv, OfSources, OnCourse
<1>5. ASSUME NEW c \in Sources, Main(c) PROVE CleanInv'
  <2>1. UNCHANGED <<files, clean>>
    BY <1>5 DEF Main, OpenLocalFile, BeginTransfer, SendPacket, CheckTransferStatus, Finish, Resend, GiveUp,
                filesVars, runsVars
  <2>2. Running(c)
    BY <1>5, PhasesOfExpected DEF Main, OpenLocalFile, BeginTransfer, SendPacket, CheckTransferStatus, Finish,
                Resend, GiveUp, TimedOut, Answered, Running, Waiting
  <2>3. GiveUp(c) => call'[c].phase = "failed"
    BY <1>1 DEF GiveUp, OfSources, Inv, SourceInv, RopenInv, Calls
  <2>4. OnCourse(c)' => ~ GiveUp(c)
    BY <2>3, PhasesOfExpected DEF OnCourse, Running, Waiting
  <2>5. OnCourse(c)' /\ RunInv(c) => RunInv(c)'
    BY <1>5, <2>4, OpenLocalFileInOrder, BeginTransferInOrder, SendPacketInOrder, CheckTransferStatusInOrder,
       FinishInOrder, ResendInOrder DEF Main
  <2>. QED
    BY <1>2, <1>3, <1>5, <2>1, <2>2, <2>5 DEF OnCourse
<1>6. ASSUME NEW c \in Sources, Receive(c) PROVE CleanInv'
  <2>1. UNCHANGED <<files, clean>> /\ Running(c)
    BY <1>6 DEF Receive, filesVars, runsVars
  <2>2. OnCourse(c)' => call'[c].phase # "crashed"
    BY PhasesOfExpected DEF OnCourse, Running, Waiting
  <2>3. OnCourse(c)' /\ RunInv(c) => RunInv(c)'
    BY <1>6, <2>2, ReceiveInOrder
  <2>. QED
    BY <1>2, <1>3, <1>6, <2>1, <2>3 DEF OnCourse
<1>7. ASSUME NEW c \in Sources, Interrupted(c) PROVE CleanInv'
  <2>1. UNCHANGED <<files, clean>> /\ call'[c].phase = "failed"
    BY <1>1, <1>7 DEF Interrupted, filesVars, runsVars, OfSources, Inv, SourceInv, RopenInv, Calls
  <2>2. ~ OnCourse(c)'
    BY <2>1, PhasesOfExpected DEF OnCourse, Running, Waiting
  <2>. QED
    BY <1>2, <1>3, <1>7, <2>1, <2>2
<1>8. ASSUME NEW c \in Sources, LoseRequest(c) \/ LoseAnswer(c) \/ ShellReads(c) PROVE CleanInv'
  <2>1. /\ UNCHANGED <<files, clean, call, ropen>>
        /\ Shortened(toTerm[c], toTerm'[c]) /\ Shortened(toClient[c], toClient'[c])
    BY <1>1, <1>8 DEF LoseRequest, LoseAnswer, ShellReads, filesVars, runsVars, Shortened, OfSources
  <2>2. OnCourse(c)' => OnCourse(c)
    BY <2>1 DEF OnCourse, Running, Waiting
  <2>3. RunInv(c) => RunInv(c)'
    BY <2>1, SameGrown, Undisturbed
  <2>. QED
    BY <1>2, <1>3, <1>8, <2>1, <2>2, <2>3
<1>9. ASSUME NEW c \in Sources, Serve(c) PROVE CleanInv'
  <2>1. UNCHANGED <<clean, call>>
    BY <1>9 DEF Serve, runsVars
  <2>2. OnCourse(c)' => OnCourse(c)
    BY <2>1 DEF OnCourse, Running, Waiting
  <2>. QED
    BY <1>2, <1>9, <2>1, <2>2, ServeInOrder
<1>11. ASSUME NEW c \in Sources, ServeRefused(c) PROVE CleanInv'
  <2>1. UNCHANGED <<clean, call>>
    BY <1>11 DEF ServeRefused, runsVars
  <2>2. OnCourse(c)' => OnCourse(c)
    BY <2>1 DEF OnCourse, Running, Waiting
  <2>. QED
    BY <1>2, <1>11, <2>1, <2>2, ServeRefusedInOrder
<1>10. CASE (\E path \in locked : CloseViewer(path)) \/ UNCHANGED vars
  <2>1. UNCHANGED <<files, clean, call, ropen, toTerm, toClient>>
    BY <1>10 DEF CloseViewer, RF!CloseViewer, vars, runsVars
  <2>2. ASSUME NEW d \in Sources, OnCourse(d)' PROVE RunInv(d)'
    <3>1. OnCourse(d) /\ Grown(d)
      BY <2>1, <2>2, SameGrown DEF OnCourse, Running, Waiting
    <3>. QED
      BY <1>1, <2>1, <3>1, Undisturbed DEF Shortened
  <2>. QED
    BY <1>1, <2>1, <2>2 DEF CleanInv, OfSources
<1>. QED
  BY <1>4, <1>5, <1>6, <1>7, <1>8, <1>9, <1>10, <1>11 DEF Next

\* Whatever of it is lost, sent twice or answered late, a run of ropen that
\* begins with nothing of an earlier one on its way asks for its file to be viewed
\* only when the terminal has counted all of it, and has stored all of it if a local
\* file could be opened each time; until it ends the terminal keeps it: for any
\* files, packets, limits, attempts and faults.
THEOREM RunsDeliver == ASSUME RF!DistinctNames PROVE Spec => []DeliveredAtEnd
<1>1. Init => CleanInv
  BY DEF Init, CleanInv, OfSources, OnCourse, Running, Waiting, Expected
<1>2. CleanInv /\ Inv /\ [Next]_vars /\ Inv' => CleanInv'
  BY CleanStep
<1>3. Inv /\ CleanInv /\ DeliveredPrefix => DeliveredAtEnd
  <2>. SUFFICES ASSUME Inv, CleanInv, DeliveredPrefix, NEW c \in Sources, clean[c],
                       call[c].phase \in {"view", "done"}
                PROVE  LET f == files[ropen[c].id] IN
                       /\ f.source = c /\ RF!Ready(f)
                       /\ c \notin refused => disk[f.path] = Whole(c)
    BY DEF DeliveredAtEnd
  <2>1. ropen[c].id \in StreamsOf(c) /\ files[ropen[c].id].received = Size[c]
    BY PhasesOfExpected DEF CleanInv, OnCourse, Running, Waiting, RunInv, InPhase
  <2>. QED
    BY <2>1 DEF StreamsOf, RF!Ready, DeliveredPrefix, Whole
<1>. QED
  BY <1>1, <1>2, <1>3, InitHolds, StepHolds, TransfersDeliver, PTL DEF Spec
=============================================================================
