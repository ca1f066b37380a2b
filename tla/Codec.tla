-------------------------------- MODULE Codec --------------------------------
(***************************************************************************)
(* ipc-protocol: the typed requests and responses of every service and the *)
(* hand-written encoders and decoders that carry them as a label (name-    *)
(* space, version, opcode) and at most six words.  A typed message is a    *)
(* variant with its fields in declaration order; enumerations keep their   *)
(* numbers.  The encoder and the decoder of a type are two independent     *)
(* tables, as they are two independent matches in the code.                *)
(***************************************************************************)
EXTENDS Naturals, Sequences

CONSTANTS
  U32,   \* the number of values of a 32-bit field
  U64    \* the number of values of a 64-bit field

ASSUME WidthAssumption == U32 \in Nat \ {0} /\ U64 \in Nat /\ U32 <= U64

VARIABLE sent   \* a message on its way: the name of its type and the message, or <<>>

MsgMaxWords     == 6
ProtocolVersion == 1

u32 == 0 .. U32 - 1
u64 == 0 .. U64 - 1
bool == 0 .. 1

Variant(tag, fields) == {[tag |-> tag, f |-> x] : x \in fields}
Unit     == {<<>>}
One(S)   == {<<x>> : x \in S}
Option(S) == Unit \cup One(S)
-----------------------------------------------------------------------------
OpenFlags         == {b \in 0 .. 63 : b \in u32}   \* the six defined bits
FsErrorCode       == 1 .. 7
DriverErrorCode   == 1 .. 7
DisplayErrorCode  == 1 .. 3
ReclaimClass      == 0 .. 2
ComputeKind       == 0 .. 4
MmErrorCode       == {1}
SecurityErrorCode == 1 .. 3

FsRequest ==
  Variant("Open", u32 \X OpenFlags) \cup Variant("Stat", One(u32)) \cup Variant("Close", One(u32))
    \cup Variant("Read", u32 \X u64 \X u32 \X u32) \cup Variant("Write", u32 \X u64 \X u32 \X u32)
FsResponse ==
  Variant("Opened", One(u32)) \cup Variant("Read", One(u32)) \cup Variant("Written", One(u32))
    \cup Variant("Stat", u64 \X bool) \cup Variant("Closed", Unit) \cup Variant("Error", One(FsErrorCode))

DriverRequest ==
  Variant("Probe", Unit) \cup Variant("Irq", One(u32)) \cup Variant("ReadBlocks", u64 \X u32 \X u32)
    \cup Variant("WriteBlocks", u64 \X u32 \X u32) \cup Variant("Quiesce", Unit)
    \cup Variant("SendFrame", One(u32)) \cup Variant("PollFrame", Unit)
DriverResponse ==
  Variant("Ready", u32 \X u64) \cup Variant("Completed", One(u32)) \cup Variant("Failed", One(DriverErrorCode))
    \cup Variant("FrameSent", Unit) \cup Variant("FrameReceived", One(u32))

DisplayRequest ==
  Variant("CreateSurface", Unit) \cup Variant("CommitBuffer", u32 \X u32 \X u32 \X u32)
    \cup Variant("DestroySurface", One(u32)) \cup Variant("SubscribeInput", Unit) \cup Variant("QueryOutputs", Unit)
DisplayResponse ==
  Variant("SurfaceCreated", One(u32)) \cup Variant("Committed", Unit) \cup Variant("Destroyed", Unit)
    \cup Variant("InputSubscribed", Unit) \cup Variant("OutputTopology", u32 \X u32 \X u32 \X u32)
    \cup Variant("Error", One(DisplayErrorCode))

MmRequest ==
  Variant("Register", u32 \X u64 \X ReclaimClass) \cup Variant("Unregister", One(u32))
    \cup Variant("QueryVictim", Unit) \cup Variant("QueryTotalResident", Unit)
    \cup Variant("RegisterSwapRegion", u32 \X u32 \X u64 \X u64)
    \cup Variant("UnregisterSwapRegion", u32 \X u32) \cup Variant("QuerySwapVictim", Unit)
    \cup Variant("RegisterComputePool", u32 \X ComputeKind \X u64 \X u64)
    \cup Variant("QueryComputePool", u64 \X Option(ComputeKind))
MmResponse ==
  Variant("Registered", Unit) \cup Variant("Unregistered", Unit) \cup Variant("Victim", One(u32))
    \cup Variant("TotalResident", One(u64)) \cup Variant("SwapRegionRegistered", Unit)
    \cup Variant("SwapRegionUnregistered", Unit) \cup Variant("SwapVictim", u32 \X u32)
    \cup Variant("ComputePoolRegistered", Unit) \cup Variant("ComputePoolChosen", One(u32))
    \cup Variant("Error", One(MmErrorCode))

NetBypassRequest ==
  Variant("RequestDirectNic", One(u32)) \cup Variant("Release", One(u32)) \cup Variant("RelayFrame", Unit)
NetBypassResponse ==
  Variant("Granted", u32 \X u32 \X u32 \X u32) \cup Variant("Denied", Unit)
    \cup Variant("Released", Unit) \cup Variant("Relayed", Unit)

SecurityRequest  == Variant("CapGrant", u32 \X u32 \X u32) \cup Variant("CapRevoke", One(u32))
SecurityResponse ==
  Variant("Granted", One(u32)) \cup Variant("Revoked", One(u32)) \cup Variant("Error", One(SecurityErrorCode))
-----------------------------------------------------------------------------
\* SmallMessage::from_words under Namespace::label; n is the number of words
\* the encoder passes on.
SmallMessage(ns, op, words, n) ==
  [ns |-> ns, version |-> ProtocolVersion, op |-> op, words |-> SubSeq(words \o <<0, 0, 0, 0>>, 1, n)]

\* preferred_kind: a presence word and a kind word
OptionWords(o) == IF o = <<>> THEN <<0, 0>> ELSE <<1, o[1]>>

\* The encoders: opcode and number of words of each variant.
Code(op, n) == [op |-> op, n |-> n]
EncodeFsRequest ==
  [Open |-> Code(1, 2), Read |-> Code(2, 4), Write |-> Code(3, 4), Stat |-> Code(4, 1), Close |-> Code(5, 1)]
EncodeFsResponse ==
  [Opened |-> Code(1, 1), Read |-> Code(2, 1), Written |-> Code(3, 1), Stat |-> Code(4, 2),
   Closed |-> Code(5, 0), Error |-> Code(6, 1)]
EncodeDriverRequest ==
  [Probe |-> Code(1, 0), Irq |-> Code(2, 1), ReadBlocks |-> Code(3, 3), WriteBlocks |-> Code(4, 3),
   Quiesce |-> Code(5, 0), SendFrame |-> Code(6, 1), PollFrame |-> Code(7, 0)]
EncodeDriverResponse ==
  [Ready |-> Code(1, 2), Completed |-> Code(2, 1), Failed |-> Code(3, 1), FrameSent |-> Code(4, 0),
   FrameReceived |-> Code(5, 1)]
EncodeDisplayRequest ==
  [CreateSurface |-> Code(1, 0), CommitBuffer |-> Code(2, 4), DestroySurface |-> Code(3, 1),
   SubscribeInput |-> Code(4, 0), QueryOutputs |-> Code(5, 0)]
EncodeDisplayResponse ==
  [SurfaceCreated |-> Code(1, 1), Committed |-> Code(2, 0), Destroyed |-> Code(3, 0),
   InputSubscribed |-> Code(4, 0), OutputTopology |-> Code(5, 4), Error |-> Code(6, 1)]
EncodeMmRequest ==
  [Register |-> Code(1, 4), Unregister |-> Code(2, 1), QueryVictim |-> Code(3, 0),
   QueryTotalResident |-> Code(4, 0), RegisterSwapRegion |-> Code(5, 4),
   UnregisterSwapRegion |-> Code(6, 3), QuerySwapVictim |-> Code(7, 0),
   RegisterComputePool |-> Code(8, 4), QueryComputePool |-> Code(9, 3)]
EncodeMmResponse ==
  [Registered |-> Code(1, 0), Unregistered |-> Code(2, 0), Victim |-> Code(3, 1), TotalResident |-> Code(4, 1),
   Error |-> Code(5, 1), SwapRegionRegistered |-> Code(6, 0), SwapRegionUnregistered |-> Code(7, 0),
   SwapVictim |-> Code(8, 2), ComputePoolRegistered |-> Code(9, 0), ComputePoolChosen |-> Code(10, 1)]
EncodeNetBypassRequest ==
  [RequestDirectNic |-> Code(1, 1), Release |-> Code(2, 1), RelayFrame |-> Code(3, 0)]
EncodeNetBypassResponse ==
  [Granted |-> Code(1, 4), Denied |-> Code(2, 0), Released |-> Code(3, 0), Relayed |-> Code(4, 0)]
EncodeSecurityRequest  == [CapGrant |-> Code(1, 3), CapRevoke |-> Code(2, 1)]
EncodeSecurityResponse == [Granted |-> Code(1, 1), Revoked |-> Code(2, 1), Error |-> Code(3, 1)]

Encode(codes, ns, m) ==
  LET words == IF m.tag = "QueryComputePool" THEN <<m.f[1]>> \o OptionWords(m.f[2])
               ELSE m.f
  IN  SmallMessage(ns, codes[m.tag].op, words, codes[m.tag].n)
-----------------------------------------------------------------------------
\* What a decoder does with a word: narrow it, take it whole, test it for
\* zero, or accept it as one of the numbers of an enumeration or a flag set.
Narrow  == [kind |-> "u32"]
Whole   == [kind |-> "u64"]
Flag    == [kind |-> "bool"]
Enum(S) == [kind |-> "enum", values |-> S]
Bits(S) == [kind |-> "bits", values |-> S]      \* narrowed first

\* mutant of Field: every field is narrowed to 32 bits
FieldNarrowed(k, w) == w % U32

Field(k, w) ==
  CASE k.kind \in {"u32", "bits"} -> w % U32
    [] k.kind = "bool" -> IF w = 0 THEN 0 ELSE 1
    [] OTHER           -> w

Accepts(k, w) == k.kind \in {"enum", "bits"} => Field(k, w) \in k.values

\* The decoders: per opcode the variant and what its words become; need(n)
\* is the number of words it looks at.
Form(tag, kinds) == [tag |-> tag, kinds |-> kinds]
DecodeFsRequest ==
  << Form("Open", <<Narrow, Bits(OpenFlags)>>), Form("Read", <<Narrow, Whole, Narrow, Narrow>>),
     Form("Write", <<Narrow, Whole, Narrow, Narrow>>), Form("Stat", <<Narrow>>), Form("Close", <<Narrow>>) >>
DecodeFsResponse ==
  << Form("Opened", <<Narrow>>), Form("Read", <<Narrow>>), Form("Written", <<Narrow>>),
     Form("Stat", <<Whole, Flag>>), Form("Closed", <<>>), Form("Error", <<Enum(FsErrorCode)>>) >>
DecodeDriverRequest ==
  << Form("Probe", <<>>), Form("Irq", <<Narrow>>), Form("ReadBlocks", <<Whole, Narrow, Narrow>>),
     Form("WriteBlocks", <<Whole, Narrow, Narrow>>), Form("Quiesce", <<>>), Form("SendFrame", <<Narrow>>),
     Form("PollFrame", <<>>) >>
DecodeDriverResponse ==
  << Form("Ready", <<Narrow, Whole>>), Form("Completed", <<Narrow>>),
     Form("Failed", <<Enum(DriverErrorCode)>>), Form("FrameSent", <<>>), Form("FrameReceived", <<Narrow>>) >>
DecodeDisplayRequest ==
  << Form("CreateSurface", <<>>), Form("CommitBuffer", <<Narrow, Narrow, Narrow, Narrow>>),
     Form("DestroySurface", <<Narrow>>), Form("SubscribeInput", <<>>), Form("QueryOutputs", <<>>) >>
DecodeDisplayResponse ==
  << Form("SurfaceCreated", <<Narrow>>), Form("Committed", <<>>), Form("Destroyed", <<>>),
     Form("InputSubscribed", <<>>), Form("OutputTopology", <<Narrow, Narrow, Narrow, Narrow>>),
     Form("Error", <<Enum(DisplayErrorCode)>>) >>
DecodeMmRequest ==
  << Form("Register", <<Narrow, Whole, Enum(ReclaimClass)>>), Form("Unregister", <<Narrow>>),
     Form("QueryVictim", <<>>), Form("QueryTotalResident", <<>>),
     Form("RegisterSwapRegion", <<Narrow, Narrow, Whole, Whole>>),
     Form("UnregisterSwapRegion", <<Narrow, Narrow>>), Form("QuerySwapVictim", <<>>),
     Form("RegisterComputePool", <<Narrow, Enum(ComputeKind), Whole, Whole>>),
     Form("QueryComputePool", <<Whole, Enum({0, 1}), Whole>>) >>
DecodeMmResponse ==
  << Form("Registered", <<>>), Form("Unregistered", <<>>), Form("Victim", <<Narrow>>),
     Form("TotalResident", <<Whole>>), Form("Error", <<Enum(MmErrorCode)>>),
     Form("SwapRegionRegistered", <<>>), Form("SwapRegionUnregistered", <<>>),
     Form("SwapVictim", <<Narrow, Narrow>>), Form("ComputePoolRegistered", <<>>),
     Form("ComputePoolChosen", <<Narrow>>) >>
DecodeNetBypassRequest ==
  << Form("RequestDirectNic", <<Narrow>>), Form("Release", <<Narrow>>), Form("RelayFrame", <<>>) >>
DecodeNetBypassResponse ==
  << Form("Granted", <<Narrow, Narrow, Narrow, Narrow>>), Form("Denied", <<>>), Form("Released", <<>>),
     Form("Relayed", <<>>) >>
DecodeSecurityRequest  == << Form("CapGrant", <<Narrow, Narrow, Narrow>>), Form("CapRevoke", <<Narrow>>) >>
DecodeSecurityResponse ==
  << Form("Granted", <<Narrow>>), Form("Revoked", <<Narrow>>), Form("Error", <<Enum(SecurityErrorCode)>>) >>

\* A refused message.  (decode_security_response looks for a word before the
\* opcode: an empty message with an unknown opcode is Truncated there.)
Err(e) == [tag |-> e, f |-> <<>>]

\* The optional kind: its word counts only when the presence word is 1.
OptionOf(m) ==
  IF m.f[2] = 0 THEN [m EXCEPT !.f = <<@[1], <<>>>>]
  ELSE IF m.f[3] \in ComputeKind THEN [m EXCEPT !.f = <<@[1], <<@[3]>>>>] ELSE Err("BadField")

Decode(forms, ns, msg) ==
  IF msg.ns # ns THEN Err("WrongNamespace")
  ELSE IF msg.version # ProtocolVersion THEN Err("VersionMismatch")
  ELSE IF msg.op \notin DOMAIN forms THEN Err("UnknownOpcode")
  ELSE LET form == forms[msg.op] IN
       IF Len(msg.words) < Len(form.kinds) THEN Err("Truncated")
       ELSE IF \E i \in DOMAIN form.kinds : ~Accepts(form.kinds[i], msg.words[i]) THEN Err("BadField")
       ELSE LET m == [tag |-> form.tag, f |-> [i \in DOMAIN form.kinds |-> Field(form.kinds[i], msg.words[i])]]
            IN  IF form.tag = "QueryComputePool" THEN OptionOf(m) ELSE m

\* write_shared_message followed by read_shared_message on the other side of
\* the page: the length is lost, all six words are there.
OverPage(msg) ==
  [msg EXCEPT !.words = [i \in 1 .. MsgMaxWords |-> IF i <= Len(@) THEN @[i] ELSE 0]]
-----------------------------------------------------------------------------
Protocol(ns, type, codes, forms) == [ns |-> ns, type |-> type, codes |-> codes, forms |-> forms]

\* Every type of message, by its name.
Protocols ==
  [FsRequest |-> Protocol("Fs", FsRequest, EncodeFsRequest, DecodeFsRequest),
   FsResponse |-> Protocol("Fs", FsResponse, EncodeFsResponse, DecodeFsResponse),
   DriverRequest |-> Protocol("Driver", DriverRequest, EncodeDriverRequest, DecodeDriverRequest),
   DriverResponse |-> Protocol("Driver", DriverResponse, EncodeDriverResponse, DecodeDriverResponse),
   DisplayRequest |-> Protocol("Display", DisplayRequest, EncodeDisplayRequest, DecodeDisplayRequest),
   DisplayResponse |-> Protocol("Display", DisplayResponse, EncodeDisplayResponse, DecodeDisplayResponse),
   MmRequest |-> Protocol("Mm", MmRequest, EncodeMmRequest, DecodeMmRequest),
   MmResponse |-> Protocol("Mm", MmResponse, EncodeMmResponse, DecodeMmResponse),
   NetBypassRequest |-> Protocol("NetBypass", NetBypassRequest, EncodeNetBypassRequest, DecodeNetBypassRequest),
   NetBypassResponse |-> Protocol("NetBypass", NetBypassResponse, EncodeNetBypassResponse, DecodeNetBypassResponse),
   SecurityRequest |-> Protocol("Security", SecurityRequest, EncodeSecurityRequest, DecodeSecurityRequest),
   SecurityResponse |-> Protocol("Security", SecurityResponse, EncodeSecurityResponse, DecodeSecurityResponse)]

\* One message of one type is sent.
CodecInit == sent \in UNION {{<<n, m>> : m \in Protocols[n].type} : n \in DOMAIN Protocols}
CodecSpec == CodecInit /\ [][UNCHANGED sent]_sent

(***************************************************************************)
(* Encoding then decoding is the identity for message m of protocol p,     *)
(* handed over directly or through a shared page, and no decoder of        *)
(* another namespace takes the bytes for a message of its own.             *)
(***************************************************************************)
CarriesExactly(p, m) ==
  LET msg == Encode(p.codes, p.ns, m) IN
    /\ Decode(p.forms, p.ns, msg) = m
    /\ Decode(p.forms, p.ns, OverPage(msg)) = m
    /\ \A n \in DOMAIN Protocols :
         Protocols[n].ns # p.ns =>
           Decode(Protocols[n].forms, Protocols[n].ns, OverPage(msg)).tag = "WrongNamespace"

(***************************************************************************)
(* ipc-protocol: every message of every protocol survives its encoder and  *)
(* decoder, directly and through a shared page that loses its length.      *)
(***************************************************************************)
CodecsExact == sent # <<>> => CarriesExactly(Protocols[sent[1]], sent[2])
=============================================================================
