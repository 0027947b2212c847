---------------------------- MODULE TppSequence ----------------------------
(***************************************************************************)
(* tpp-lib/sequence.{h,cpp}: a t++ sequence is ESC P + kind ; fields BEL.  *)
(* A sequence is a record of its kind and the values of its fields.        *)
(***************************************************************************)
EXTENDS Bytes

Ack == 0
Nack == 1
GetCapabilities == 2
Capabilities == 3
Data == 4
OpenFileTransfer == 5
GetTransferStatus == 6
TransferStatus == 7
ViewRemoteFile == 8
Invalid == 9

Kinds == Ack..ViewRemoteFile

\* The fields each kind writes and reads, in this order.
Fields(kind) ==
  CASE kind = Ack -> <<"string", "number">>
    [] kind = Nack -> <<"string", "string">>
    [] kind = GetCapabilities -> << >>
    [] kind = Capabilities -> <<"number">>
    [] kind = Data -> <<"number", "number", "number", "payload">>
    [] kind = OpenFileTransfer -> <<"string", "string", "number">>
    [] kind = TransferStatus -> <<"number", "number", "number">>
    [] kind \in {GetTransferStatus, ViewRemoteFile} -> <<"number">>

\* writeTo(): the text of a sequence.
WriteTo(seq) ==
  LET field(i) == CASE Fields(seq.kind)[i] = "string" -> WriteString(seq.fields[i])
                    [] Fields(seq.kind)[i] = "number" -> Decimal(seq.fields[i])
                    [] Fields(seq.kind)[i] = "payload" -> Encode(seq.fields[i])
  IN Decimal(seq.kind) \o
     FlattenSeq([i \in 1..Len(seq.fields) |-> <<Semicolon>> \o field(i)])

\* A sequence as send() puts it on the wire.
OnTheWire(seq) == <<ESC, 80, 43>> \o WriteTo(seq) \o <<BEL>>

\* FindSequenceStart(): where a t++ sequence, or what may become one, starts in
\* b; past the end of b if nowhere.
FindSequenceStart(b) ==
  LET starts == {i \in 1..Len(b) :
                   /\ b[i] = ESC
                   /\ i + 1 <= Len(b) => b[i + 1] = 80
                   /\ i + 2 <= Len(b) => b[i + 2] = 43}
  IN IF starts = {} THEN Len(b) + 1 ELSE CHOOSE i \in starts : \A j \in starts : i <= j

\* FindSequenceEnd(): of the first BEL at from or later; past the end if none.
FindSequenceEnd(b, from) ==
  LET bells == {i \in from..Len(b) : b[i] = BEL}
  IN IF bells = {} THEN Len(b) + 1 ELSE CHOOSE i \in bells : \A j \in bells : i <= j

\* ParseKind(): of what is between ESC P + and BEL; payload is what is left.
ParseKind(b) ==
  LET d == Span(Digits, b) IN
  CASE d.tail # << >> /\ d.tail[1] = Semicolon -> [kind |-> Number(d.head), payload |-> Tail(d.tail)]
    [] d.tail = << >> -> [kind |-> Number(d.head), payload |-> << >>]
    [] OTHER -> [kind |-> Invalid, payload |-> d.tail]

\* The constructors from a payload: the fields one after another; what is left
\* over is ignored. Data checks the size it announces.
RECURSIVE ReadFields(_, _)
ReadFields(types, s) ==
  IF types = << >> THEN Read(<< >>, s)
  ELSE LET field == CASE types[1] = "string" -> ReadString(s)
                      [] types[1] = "number" -> ReadUnsigned(s)
                      [] types[1] = "payload" ->
                           IF WellQuoted(s) THEN Read(Decode(s), << >>) ELSE Throws
           others == ReadFields(Tail(types), field.rest)
       IN IF field.ok /\ others.ok THEN Read(<<field.value>> \o others.value, others.rest)
                                   ELSE Throws

ReadSequence(kind, payload) ==
  LET read == ReadFields(Fields(kind), payload) IN
  IF read.ok /\ (kind = Data => read.value[3] = Len(read.value[4]))
  THEN Read([kind |-> kind, fields |-> read.value], read.rest)
  ELSE Throws
=============================================================================
