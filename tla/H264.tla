-------------------------------- MODULE H264 --------------------------------
(***************************************************************************)
(* The H.264 bitstream code of caml-ffmpeg/src/h264.rs.  A payload is a    *)
(* sequence of bytes: NAL units behind start codes (Annex B), or behind    *)
(* their lengths in so many bytes each (AVCC).  The code's indices count   *)
(* from 0, these from 1.  What may fail is an option, a sequence of at     *)
(* most one element.                                                       *)
(***************************************************************************)
EXTENDS Naturals, Sequences, FiniteSets, SequencesExt, FiniteSetsExt

Byte == 0 .. 255
StartCode == <<0, 0, 0, 1>>
ShortStartCode == <<0, 0, 1>>

BigEndian(bytes) ==
  LET value[n \in 0 .. Len(bytes)] == IF n = 0 THEN 0 ELSE 256 * value[n - 1] + bytes[n]
  IN  value[Len(bytes)]
UnitType(unit) == unit[1] % 32
SPS == 7
PPS == 8
-----------------------------------------------------------------------------
LooksLikeAnnexB(payload) == IsPrefix(StartCode, payload) \/ IsPrefix(ShortStartCode, payload)

(* The start code at or after an offset: its place and its length, or      *)
(* nothing.                                                                *)
FindStartCode(payload, offset) ==
  LET At(i, code) == /\ i + Len(code) - 1 <= Len(payload)
                     /\ SubSeq(payload, i, i + Len(code) - 1) = code
      found == {i \in offset .. Len(payload) : At(i, StartCode) \/ At(i, ShortStartCode)}
  IN  IF found = {} THEN <<>>
      ELSE LET i == Min(found) IN <<[at |-> i, length |-> IF At(i, StartCode) THEN 4 ELSE 3]>>

(* annex_b_parameter_sets: the types of the units the scan comes across.   *)
UnitTypes(payload) ==
  LET From[offset \in 1 .. Len(payload) + 1] ==
        LET code == FindStartCode(payload, offset) IN
        IF code = <<>> THEN {}
        ELSE LET start     == code[1].at + code[1].length
                 following == FindStartCode(payload, start)
                 next      == IF following = <<>> THEN Len(payload) + 1 ELSE following[1].at
             IN  (IF start < next THEN {payload[start] % 32} ELSE {}) \cup From[next]
  IN  From[1]

(* avcc_to_annex_b: units of no length are left out, and it is an error if *)
(* a length is cut off, promises too much, or if nothing is left.          *)
AvccToAnnexB(payload, lengthSize) ==
  LET From[cursor \in 1 .. Len(payload) + 1] ==
        IF cursor > Len(payload) THEN << <<>> >>
        ELSE IF cursor + lengthSize - 1 > Len(payload) THEN <<>>
        ELSE LET body   == cursor + lengthSize
                 length == BigEndian(SubSeq(payload, cursor, body - 1))
             IN  IF body + length - 1 > Len(payload) THEN <<>>
                 ELSE LET rest == From[body + length] IN
                      IF rest = <<>> \/ length = 0 THEN rest
                      ELSE <<StartCode \o SubSeq(payload, body, body + length - 1) \o rest[1]>>
  IN  IF lengthSize \notin 1 .. 4 THEN <<>>
      ELSE IF From[1] = << <<>> >> /\ payload # <<>> THEN <<>>
      ELSE From[1]

(* normalize_h264_payload: config is an option, too.                       *)
LacksBoth(payload) ==                   \* mutant: one kind of parameter set is enough
  UnitTypes(payload) \cap {SPS, PPS} = {}
LacksOne(payload) == ~({SPS, PPS} \subseteq UnitTypes(payload))

Normalize(payload, isKeyframe, config) ==
  LET output == IF LooksLikeAnnexB(payload) THEN <<payload>>
                ELSE AvccToAnnexB(payload, IF config = <<>> THEN 4 ELSE config[1].lengthSize)
  IN  IF output # <<>> /\ isKeyframe /\ config # <<>> /\ LacksOne(output[1])
      THEN <<config[1].parameterSets \o output[1]>> ELSE output
-----------------------------------------------------------------------------
(* read_avcc_unit, count times: the cursor and the units with start codes. *)
ReadAvccUnits(data, first, count) ==
  LET Read[n \in 0 .. count] ==
        IF n = 0 THEN <<[cursor |-> first, units |-> <<>>]>>
        ELSE LET before == Read[n - 1] IN
             IF before = <<>> \/ before[1].cursor + 1 > Len(data) THEN <<>>
             ELSE LET start == before[1].cursor + 2
                      end   == start + BigEndian(SubSeq(data, start - 2, start - 1))
                  IN  IF end > Len(data) + 1 THEN <<>>
                      ELSE <<[cursor |-> end,
                              units  |-> before[1].units \o StartCode \o SubSeq(data, start, end - 1)]>>
  IN  Read[count]

(* parse_avcc_extradata: parameter sets up to the end of the pictures'.    *)
ParseAvcc(data) ==
  LET sps == ReadAvccUnits(data, 7, data[6] % 32)
      pps == ReadAvccUnits(data, sps[1].cursor + 1, data[sps[1].cursor])
      Config(units) == <<[lengthSize |-> (data[5] % 4) + 1, parameterSets |-> units]>>
  IN  IF Len(data) < 7 \/ sps = <<>> THEN <<>>
      ELSE IF sps[1].cursor > Len(data) THEN Config(sps[1].units)
      ELSE IF pps = <<>> THEN <<>>
      ELSE Config(sps[1].units \o pps[1].units)

(* extract_h264_config: an error, no configuration, or one.                *)
ExtractConfig(extradata) ==
  IF extradata = <<>> THEN [ok |-> TRUE, config |-> <<>>]
  ELSE IF LooksLikeAnnexB(extradata)
  THEN [ok |-> TRUE, config |-> <<[lengthSize |-> 4, parameterSets |-> extradata]>>]
  ELSE IF extradata[1] # 1 THEN [ok |-> TRUE, config |-> <<>>]
  ELSE [ok |-> ParseAvcc(extradata) # <<>>, config |-> ParseAvcc(extradata)]
=============================================================================
