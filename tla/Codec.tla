------------------------------- MODULE Codec -------------------------------
(***************************************************************************)
(* pkg/engine/codec.go and codec_rules.go: beliefs, resolutions and rules as   *)
(* a log keeps them.  A field is its length and then its bytes; here a stream  *)
(* of units, where a length is 0 or 1 and the bytes of a name are one unit.    *)
(* A decoder returns the set of what it has read: empty if that is an error.   *)
(***************************************************************************)
EXTENDS Rules, SequencesExt

CONSTANTS CodecRules, CodecBeliefs   \* bound: what the codecs are checked on

ASSUME CodecAssumption ==
  /\ CodecRules \subseteq [name : Token, if : Seq(AtomPattern), then : AtomPattern]
  /\ CodecBeliefs \subseteq [atom : AtomPattern, pol : {"+", "-"}, src : Term, time : Int]

Field(s) == IF s = Empty THEN <<0>> ELSE <<1, s>>

EncodePattern(p) == Field(p.from) \o Field(p.pred) \o Field(p.to)

\* Faulty: the number of premises is not written.
EncodeUncounted(r) == Field(r.name) \o FlattenSeq([i \in DOMAIN r.if |-> EncodePattern(r.if[i])])
                        \o EncodePattern(r.then)

EncodeRule(r) == Field(r.name) \o <<Len(r.if)>>
                   \o FlattenSeq([i \in DOMAIN r.if |-> EncodePattern(r.if[i])])
                   \o EncodePattern(r.then)

Byte(pol) == IF pol = "+" THEN 1 ELSE 0

\* The last unit is the time stamp.
EncodeBelief(b) == EncodePattern(b.atom) \o <<Byte(b.pol)>> \o Field(b.src) \o <<b.time>>

(***************************************************************************)
(* Where the fields that start at from end: the n-th one before position       *)
(* ends[n].  A Read of no byte at the end of the stream is an error too, so a  *)
(* field has to have something behind its length.                            *)
(***************************************************************************)
FieldEnds(w, from, count) ==
  LET ends[n \in 0 .. count] ==
        IF n = 0 THEN from
        ELSE IF ends[n - 1] < Len(w) THEN ends[n - 1] + 1 + w[ends[n - 1]]
        ELSE Len(w) + 2
  IN  ends

FieldsAt(w, ends) ==
  [n \in DOMAIN ends \ {0} |-> LET at == ends[n - 1] IN IF w[at] = 0 THEN Empty ELSE w[at + 1]]

AsPattern(f, n) == [from |-> f[n + 1], pred |-> f[n + 2], to |-> f[n + 3]]

DecodeRule(w) ==
  LET at    == FieldEnds(w, 1, 1)[1]
      names == 3 * (w[at] + 1)
      ends  == FieldEnds(w, at + 1, names)
      f     == FieldsAt(w, ends)
  IN  {[name |-> FieldsAt(w, FieldEnds(w, 1, 1))[1],
        if   |-> [i \in 1 .. w[at] |-> AsPattern(f, 3 * (i - 1))],
        then |-> AsPattern(f, names - 3)] : whole \in {Len(w) + 1} \cap {ends[names]}}

DecodeBelief(w) ==
  LET ends == FieldEnds(w, 1, 3)
      at   == ends[3]
      src  == FieldEnds(w, at + 1, 1)
  IN  {[atom |-> AsPattern(FieldsAt(w, ends), 0),
        pol  |-> IF w[at] = 1 THEN "+" ELSE "-",
        src  |-> FieldsAt(w, src)[1],
        time |-> w[src[1]]] : whole \in {Len(w)} \cap {src[1]}}

=============================================================================
