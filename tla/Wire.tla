-------------------------------- MODULE Wire ---------------------------------
(* The encodings of a described record (core/describe.hpp, core/wire.hpp)   *)
(* and the durable record with its migrations (core/serialize.hpp). A byte  *)
(* holds a digit of Radix and a continuation bit; a schema is the sequence  *)
(* of fields QUARK_SERIALIZE lists, a value maps each tag to what the field *)
(* holds.                                                                   *)
EXTENDS Integers, SequencesExt, Sequences

CONSTANTS Radix,      \* 2^7 in the code
          MaxGroups,  \* bytes get_uleb reads at most: 10
          Bound,      \* integers encoded here are below it
          Schemas,    \* schema version -> fields; adjacent versions share tags of one kind
          Values,     \* schema version -> records written here
          Current,    \* the version the reader is compiled for
          Upcast(_, _) \* Migration<From>::upcast: version, record -> record of the next version

VARIABLES rec,        \* the record being written: [ver, value]
          buf,        \* [form, key, ver, body]: a tagged, tagless or durable encoding
          step

wireVars == <<rec, buf, step>>

Bad == [ok |-> FALSE]
Got(v, rest) == [ok |-> TRUE, v |-> v, rest |-> rest]
After(b, n) == SubSeq(b, n + 1, Len(b))
-----------------------------------------------------------------------------
(* Varints.                                                                    *)

put_uleb[v \in 0..Bound] == IF v < Radix THEN <<v>> ELSE <<(v % Radix) + Radix>> \o put_uleb[v \div Radix]
uleb_size_One(v) == 1
uleb_size(v) == LET n == CHOOSE k \in 1..MaxGroups : v < Radix ^ k /\ (k = 1 \/ v >= Radix ^ (k - 1)) IN n

get_uleb(b) ==
    LET last == {i \in DOMAIN b : i <= MaxGroups /\ b[i] < Radix /\ \A j \in 1..(i - 1) : b[j] >= Radix}
        digit[i \in 0..MaxGroups] == IF i = 0 THEN 0 ELSE digit[i - 1] + (b[i] % Radix) * Radix ^ (i - 1)
    IN IF last = {} THEN Bad ELSE LET n == CHOOSE i \in last : TRUE IN Got(digit[n], After(b, n))

zigzag(v) == IF v >= 0 THEN 2 * v ELSE -2 * v - 1
unzigzag(u) == IF u % 2 = 0 THEN u \div 2 ELSE -((u + 1) \div 2)
\* put_fixed_le and get_fixed_le, of two bytes.
put_fixed_le(v) == <<v % (2 * Radix), v \div (2 * Radix)>>
get_fixed_le(b) == IF Len(b) < 2 THEN Bad ELSE Got(b[1] + b[2] * 2 * Radix, After(b, 2))
-----------------------------------------------------------------------------
(* The tagged form: keys, and values by wire type.                             *)

Varint == 0
Bytes == 2
Fixed32 == 5
wire_type_of(f) == CASE f.kind \in {"uint", "int"} -> Varint [] f.kind = "float" -> Fixed32 [] OTHER -> Bytes
Key(f) == f.tag * 8 + wire_type_of(f)

\* The visitor QUARK_SERIALIZE expands to: one field after the other.
quark_describe(schema, field(_)) == FlattenSeq([i \in DOMAIN schema |-> field(schema[i])])

RECURSIVE tagged_write_object(_, _)
tagged_write_value(f, v) ==
    CASE f.kind = "uint" -> put_uleb[v]
      [] f.kind = "int" -> put_uleb[zigzag(v)]
      [] f.kind = "float" -> put_fixed_le(v)
      [] f.kind = "string" -> put_uleb[Len(v)] \o v
      [] f.kind = "list" -> LET c == FlattenSeq([i \in DOMAIN v |-> put_uleb[v[i]]]) IN put_uleb[Len(c)] \o c
      [] f.kind = "object" -> LET c == tagged_write_object(f.sub, v) IN put_uleb[Len(c)] \o c
tagged_write_object(schema, r) ==
    quark_describe(schema, LAMBDA f : put_uleb[Key(f)] \o tagged_write_value(f, r[f.tag]))

\* The size the sender allocates before it writes.
RECURSIVE tagged_object_size(_, _)
Sum(s) == FoldLeft(LAMBDA a, b : a + b, 0, s)
tagged_value_size(f, v) ==
    LET delimited(n) == uleb_size(n) + n IN
    CASE f.kind = "uint" -> uleb_size(v)
      [] f.kind = "int" -> uleb_size(zigzag(v))
      [] f.kind = "float" -> 2
      [] f.kind = "string" -> delimited(Len(v))
      [] f.kind = "list" -> delimited(Sum([i \in DOMAIN v |-> uleb_size(v[i])]))
      [] f.kind = "object" -> delimited(tagged_object_size(f.sub, v))
tagged_object_size(schema, r) ==
    Sum([i \in DOMAIN schema |-> uleb_size(Key(schema[i])) + tagged_value_size(schema[i], r[schema[i].tag])])

RECURSIVE Default(_)
Default(schema) == [t \in {schema[i].tag : i \in DOMAIN schema} |->
    LET f == schema[CHOOSE i \in DOMAIN schema : schema[i].tag = t] IN
    IF f.kind \in {"uint", "int", "float"} THEN 0 ELSE IF f.kind = "object" THEN Default(f.sub) ELSE <<>>]

\* A length-delimited value: its bytes, if the buffer has that many.
Delimited(b) == LET n == get_uleb(b) IN
    IF ~n.ok \/ n.v > Len(n.rest) THEN Bad ELSE Got(SubSeq(n.rest, 1, n.v), After(n.rest, n.v))

\* tagged_skip_value, by the wire type of the key alone.
tagged_skip_value(wt, b) ==
    CASE wt = Varint -> get_uleb(b) [] wt = Fixed32 -> get_fixed_le(b) [] wt = Bytes -> Delimited(b) [] OTHER -> Bad

RECURSIVE ReadList(_, _)
ReadList(b, out) == IF b = <<>> THEN Got(out, b)
                    ELSE LET e == get_uleb(b) IN IF e.ok THEN ReadList(e.rest, Append(out, e.v)) ELSE Bad
RECURSIVE tagged_read_object(_, _, _)
tagged_read_value(f, b) ==
    CASE f.kind = "uint" -> get_uleb(b)
      [] f.kind = "int" -> LET u == get_uleb(b) IN IF u.ok THEN Got(unzigzag(u.v), u.rest) ELSE Bad
      [] f.kind = "float" -> get_fixed_le(b)
      [] f.kind = "string" -> Delimited(b)
      [] f.kind = "list" -> LET d == Delimited(b) l == ReadList(d.v, <<>>)
                            IN IF d.ok THEN (IF l.ok THEN Got(l.v, d.rest) ELSE Bad) ELSE Bad
      [] f.kind = "object" -> LET d == Delimited(b) o == tagged_read_object(f.sub, d.v, Default(f.sub))
                              IN IF d.ok THEN (IF o.ok THEN Got(o.v, d.rest) ELSE Bad) ELSE Bad
\* Fields in any order; a tag the reader has is read as the reader's type.
tagged_read_object(schema, b, out) ==
    IF b = <<>> THEN Got(out, b)
    ELSE LET k == get_uleb(b)
             tag == k.v \div 8
             known == {i \in DOMAIN schema : schema[i].tag = tag}
             f == schema[CHOOSE i \in known : TRUE]
             r == IF known = {} THEN tagged_skip_value(k.v % 8, k.rest) ELSE tagged_read_value(f, k.rest)
         IN IF ~k.ok THEN Bad ELSE IF ~r.ok THEN Bad
            ELSE tagged_read_object(schema, r.rest, IF known = {} THEN out ELSE [out EXCEPT ![tag] = r.v])
decode_tagged(ver, b) == tagged_read_object(Schemas[ver], b, Default(Schemas[ver]))
-----------------------------------------------------------------------------
(* The tagless form: the values in order, numbers as they lie in memory.       *)

RECURSIVE tagless_write_object(_, _)
tagless_write_value(f, v) ==
    CASE f.kind \in {"uint", "float"} -> put_fixed_le(v)
      [] f.kind = "int" -> put_fixed_le(zigzag(v))
      [] f.kind = "string" -> <<Len(v)>> \o v
      [] f.kind = "list" -> <<Len(v)>> \o FlattenSeq([i \in DOMAIN v |-> put_fixed_le(v[i])])
      [] f.kind = "object" -> tagless_write_object(f.sub, v)
tagless_write_object(schema, r) == quark_describe(schema, LAMBDA f : tagless_write_value(f, r[f.tag]))

\* tagless_size: what the buffer of an encode_tagless is sized by.
RECURSIVE tagless_object_size(_, _)
tagless_value_size(f, v) ==
    CASE f.kind \in {"uint", "int", "float"} -> 2
      [] f.kind = "string" -> 1 + Len(v)
      [] f.kind = "list" -> 1 + 2 * Len(v)
      [] f.kind = "object" -> tagless_object_size(f.sub, v)
tagless_object_size(schema, r) == Sum([i \in DOMAIN schema |-> tagless_value_size(schema[i], r[schema[i].tag])])

\* tagless_read_value_checked: every length against the bytes that are left.
RECURSIVE tagless_read_object(_, _, _)
LongEnough(b, n) == Len(b) >= n
Counted(b, size) == IF b = <<>> THEN Bad ELSE IF ~LongEnough(Tail(b), b[1] * size) THEN Bad
                    ELSE Got([i \in 1..b[1] * size |-> IF i < Len(b) THEN b[i + 1] ELSE 0], After(b, 1 + b[1] * size))
tagless_read_value(f, b) ==
    CASE f.kind \in {"uint", "float"} -> get_fixed_le(b)
      [] f.kind = "int" -> LET u == get_fixed_le(b) IN IF u.ok THEN Got(unzigzag(u.v), u.rest) ELSE Bad
      [] f.kind = "string" -> Counted(b, 1)
      [] f.kind = "list" -> LET c == Counted(b, 2)
                            IN IF c.ok THEN Got([i \in 1..(Len(c.v) \div 2) |-> c.v[2 * i - 1] + c.v[2 * i] * 2 * Radix], c.rest) ELSE Bad
      [] f.kind = "object" -> tagless_read_object(f.sub, b, Default(f.sub))
tagless_read_object(schema, b, out) ==
    IF schema = <<>> THEN Got(out, b)
    ELSE LET f == Head(schema) r == tagless_read_value(f, b)
         IN IF r.ok THEN tagless_read_object(Tail(schema), r.rest, [out EXCEPT ![f.tag] = r.v]) ELSE Bad
decode_tagless_checked(ver, b) == tagless_read_object(Schemas[ver], b, Default(Schemas[ver]))
-----------------------------------------------------------------------------
(* Durable records: the type key, which is the schema's fingerprint, and the   *)
(* schema version before the tagged body.                                      *)

fingerprint(schema) == schema
decode_record(b) == IF b.key # fingerprint(Schemas[Current]) THEN Bad ELSE decode_tagged(Current, b.body)

migrate_to(ver, v) ==
    LET up[k \in ver..Current] == IF k = ver THEN v ELSE Upcast(k - 1, up[k - 1]) IN up[Current]
\* read_from_chain: the version picks the schema, the key must be that schema's.
TypeMatches(b) == b.key = fingerprint(Schemas[b.ver])
read_migrated(b) ==
    IF b.ver \notin 1..Current THEN Bad ELSE IF ~TypeMatches(b) THEN Bad
    ELSE LET d == decode_tagged(b.ver, b.body) IN IF d.ok THEN [ok |-> TRUE, v |-> migrate_to(b.ver, d.v)] ELSE Bad
-----------------------------------------------------------------------------
NoBuf == [form |-> "none", key |-> <<>>, ver |-> 0, body |-> <<>>]
WireInit == rec = [ver |-> 0, value |-> 0] /\ buf = NoBuf /\ step = "pick"

Pick == /\ step = "pick" /\ step' = "encode"
        /\ \E w \in DOMAIN Schemas : \E v \in Values[w] : rec' = [ver |-> w, value |-> v]
        /\ UNCHANGED buf

encode(form) ==
    /\ step = "encode" /\ step' = "stored"
    /\ LET s == Schemas[rec.ver]
       IN buf' = [form |-> form, key |-> fingerprint(s), ver |-> rec.ver,
                  body |-> IF form = "tagless" THEN tagless_write_object(s, rec.value) ELSE tagged_write_object(s, rec.value)]
    /\ UNCHANGED rec

\* The tail is lost before it is read; or the header is another type's record of
\* the same version number.
Tear == /\ step = "stored" /\ buf.body # <<>> /\ step' = "torn"
        /\ \E n \in 0..(Len(buf.body) - 1) : buf' = [buf EXCEPT !.body = SubSeq(@, 1, n)]
        /\ UNCHANGED rec
Mistake == /\ step = "stored" /\ buf.form = "tagged" /\ step' = "mistaken"
           /\ \E w \in DOMAIN Schemas \ {rec.ver} : buf' = [buf EXCEPT !.ver = w]
           /\ UNCHANGED rec

WireNext == Pick \/ (\E form \in {"tagged", "tagless"} : encode(form)) \/ Tear \/ Mistake
-----------------------------------------------------------------------------
Tags(ver) == DOMAIN Default(Schemas[ver])

\* What a node writes it reads back, in either form, and the buffer it sized
\* beforehand fits to the byte: send_remote drops a message that does not fit
\* (tagged_object_size against tagged_write_object, distribution.hpp:307-309).
RoundTrips == step = "stored" =>
    IF buf.form = "tagged"
    THEN decode_tagged(rec.ver, buf.body) = Got(rec.value, <<>>) /\ Len(buf.body) = tagged_object_size(Schemas[rec.ver], rec.value)
    ELSE decode_tagless_checked(rec.ver, buf.body) = Got(rec.value, <<>>) /\ Len(buf.body) = tagless_object_size(Schemas[rec.ver], rec.value)

\* A reader of another schema version gets every field the two versions share as
\* it was written and its own default for every other, whatever fields it has to
\* skip over (tagged_read_object, wire.hpp:285-305).
EvolutionKeepsCommon == step = "stored" /\ buf.form = "tagged" => \A w \in DOMAIN Schemas :
    LET d == decode_tagged(w, buf.body) IN
    d.ok /\ \A t \in Tags(w) : d.v[t] = IF t \in Tags(rec.ver) THEN rec.value[t] ELSE Default(Schemas[w])[t]

\* A payload that lost its end never decodes as a tagless message, and the reader
\* never looks past the end to find out (tagless_read_value_checked, :475-526).
TornIsRefused == step = "torn" /\ buf.form = "tagless" => ~decode_tagless_checked(rec.ver, buf.body).ok

\* A durable record of any version in the chain reads as the current version of
\* what was written; a record whose header names a version it was not written in
\* is refused, never read as something else (read_from_chain, serialize.hpp:134-153).
DurableIsFaithful ==
    /\ step = "stored" /\ buf.form = "tagged" => read_migrated(buf) = [ok |-> TRUE, v |-> migrate_to(rec.ver, rec.value)]
    /\ step = "stored" /\ buf.form = "tagged" /\ decode_record(buf).ok => rec.ver = Current
    /\ step = "mistaken" => ~read_migrated(buf).ok

-----------------------------------------------------------------------------
(* The bytes of a SWIM control frame: a fixed head, counted lists one after *)
(* the other, and a trailer that only version 2 writes and that a reader    *)
(* finds by there being bytes left. A frame is encoded, may lose its end or *)
(* have a byte changed, and is decoded. Numbers are little-endian in cells  *)
(* of a small radix and wrap at their width.                                *)

CONSTANTS U16, U64,   \* cells of a count and of an id
          Messages,   \* the messages sent
          OwnVersion, \* cfg_.wire_version of the receiver
          MaxCapabilityBytes, MaxSigned, MaxBlob

VARIABLES msg,    \* the message sent
          wire,   \* its bytes, as they arrive
          whole,  \* nothing happened to them on the way
          got     \* what the receiver makes of them

controlWireVars == <<msg, wire, whole, got>>

Unread == [ok |-> FALSE, read |-> FALSE]

put(v, cells) == [i \in 1..cells |-> (v \div Radix^(i - 1)) % Radix]
counted(list, One(_)) == put(Len(list), U16) \o FlattenSeq([i \in DOMAIN list |-> One(list[i])])

\* The blobs a frame may carry: those of a legal size, up to the cap.
Kept(blobs) == LET fit == SelectSeq(blobs, LAMBDA x : x # <<>> /\ Len(x) <= MaxBlob)
               IN SubSeq(fit, 1, IF Len(fit) < MaxSigned THEN Len(fit) ELSE MaxSigned)

trailer(m) ==
    IF m.ver = 1 THEN <<>>
    ELSE put(m.ver, 1)
         \o (IF m.signed # <<>> THEN counted(Kept(m.signed), LAMBDA x : put(Len(x), U16) \o x) ELSE <<>>)

encode_control(m) ==
    put(m.kind, 1) \o put(m.from, U64) \o put(m.seq, U64)
    \o counted(m.updates, LAMBDA u : put(u.node, U64) \o put(u.status, 1))
    \o counted(m.revocations, LAMBDA fp : put(fp, U64))
    \o counted(m.capabilities, LAMBDA e : put(e.node, U64) \o put(Len(e.blob), U16) \o e.blob)
    \o counted(m.pressure, LAMBDA e : put(e, U64))
    \o put(m.congestion, U64)
    \o trailer(m)

------------------------------------------------------------------------------
\* A reader is where it stands, whether it has stayed inside, and what it read.
At(b, p) == IF p \in DOMAIN b THEN b[p] ELSE 0
number(b, p, cells) == LET v[i \in 0..cells] == IF i = 0 THEN 0 ELSE v[i - 1] + At(b, p + i - 1) * Radix^(i - 1)
                       IN v[cells]
take(b, r, cells) == [p |-> r.p + cells, ok |-> r.ok /\ r.p + cells <= Len(b) + 1, v |-> number(b, r.p, cells)]
bytes(b, p, n) == SubSeq(b, p, IF p + n - 1 <= Len(b) THEN p + n - 1 ELSE Len(b))

\* A count and that many entries, as long as the reader stays inside.
many(b, r, One(_, _)) ==
    LET count == take(b, r, U16)
        f[i \in 0..count.v] ==
            IF i = 0 THEN [p |-> count.p, ok |-> count.ok, v |-> <<>>]
            ELSE LET q == f[i - 1]
                 IN IF ~q.ok THEN q
                    ELSE LET e == One(b, q) IN [p |-> e.p, ok |-> e.ok, v |-> Append(q.v, e.v)]
    IN f[count.v]

an_update(b, q) == LET n == take(b, q, U64)
                       s == take(b, n, 1)
                   IN [p |-> s.p, ok |-> s.ok, v |-> [node |-> n.v, status |-> s.v]]

Carried(entries) == FoldLeft(LAMBDA n, e : n + Len(e.blob), 0, entries)

TooMuch(entries, more) == Carried(entries) + more > MaxCapabilityBytes

\* The blobs of all entries together are bounded before one is allocated.
a_capability(b, q) ==
    LET n == take(b, q, U64)
        len == take(b, n, U16)
        fits == len.ok /\ ~TooMuch(q.v, len.v)
    IN [p |-> len.p + len.v, ok |-> fits /\ len.p + len.v <= Len(b) + 1,
        v |-> [node |-> n.v, blob |-> bytes(b, len.p, IF fits THEN len.v ELSE 0)]]

Inside(b, p, n) == p + n <= Len(b) + 1

a_signed_revocation(b, q) ==
    LET len == take(b, q, U16)
        fits == len.ok /\ len.v # 0 /\ len.v <= MaxBlob /\ Inside(b, len.p, len.v)
    IN [p |-> len.p + len.v, ok |-> fits, v |-> bytes(b, len.p, IF fits THEN len.v ELSE 0)]

\* The fields in the order they are read.  The version and the signed
\* revocations are there if there are bytes left.
Fields == <<"kind", "from", "seq", "updates", "revocations", "capabilities", "pressure", "congestion", "ver", "signed">>
a_field(b, q, name) ==
    LET left == q.ok /\ q.p <= Len(b) IN
    CASE name = "kind" -> take(b, q, 1)
      [] name \in {"from", "seq", "congestion"} -> take(b, q, U64)
      [] name = "updates" -> many(b, q, an_update)
      [] name \in {"revocations", "pressure"} -> many(b, q, LAMBDA x, e : take(x, e, U64))
      [] name = "capabilities" -> many(b, q, a_capability)
      [] name = "ver" -> IF left THEN take(b, q, 1) ELSE [p |-> q.p, ok |-> q.ok, v |-> 1]
      [] name = "signed" -> IF ~left THEN [p |-> q.p, ok |-> q.ok, v |-> <<>>]
                            ELSE IF take(b, q, U16).v > MaxSigned THEN [p |-> q.p, ok |-> FALSE, v |-> <<>>]
                            ELSE many(b, q, a_signed_revocation)

decode_control(b) ==
    LET read[n \in 0..Len(Fields)] ==
            IF n = 0 THEN [p |-> 1, ok |-> TRUE, msg |-> <<>>]
            ELSE LET q == read[n - 1]
                     r == a_field(b, q, Fields[n])
                 IN  [p |-> r.p, ok |-> r.ok, msg |-> (Fields[n] :> r.v) @@ q.msg]
        last == read[Len(Fields)]
    IN  [ok |-> last.ok, read |-> TRUE, msg |-> last.msg]

\* wire_verdict: peers one version away are spoken to, others are refused.
Window == 1
wire_verdict(peer) == CASE peer + Window < OwnVersion -> "TooOld"
                        [] peer > OwnVersion + Window -> "TooNew"
                        [] OTHER -> "None"

------------------------------------------------------------------------------
ControlWireInit == msg \in Messages /\ wire = encode_control(msg) /\ whole = TRUE /\ got = Unread

\* The end of a frame is missing.
TearFrame(n) == /\ ~got.read /\ whole /\ n < Len(wire)
                /\ wire' = SubSeq(wire, 1, n) /\ whole' = FALSE
                /\ UNCHANGED <<msg, got>>

\* One byte of a frame is another one.
Garble(i, v) == /\ ~got.read /\ whole /\ i \in DOMAIN wire /\ wire[i] # v
                /\ wire' = [wire EXCEPT ![i] = v] /\ whole' = FALSE
                /\ UNCHANGED <<msg, got>>

\* on_frame: what does not parse is dropped, what parses gets its verdict.
Receive == /\ ~got.read
           /\ LET d == decode_control(wire)
              IN got' = IF d.ok THEN [ok |-> TRUE, read |-> TRUE, msg |-> d.msg, verdict |-> wire_verdict(d.msg.ver)]
                        ELSE [ok |-> FALSE, read |-> TRUE]
           /\ UNCHANGED <<msg, wire, whole>>

ControlWireNext ==
    \/ \E n \in 0..Len(wire) : TearFrame(n)
    \/ \E i \in 1..Len(wire), v \in 0..(Radix - 1) : Garble(i, v)
    \/ Receive

ControlWireSpec == ControlWireInit /\ [][ControlWireNext]_controlWireVars

------------------------------------------------------------------------------
Carries(m) == [m EXCEPT !.signed = IF m.ver = 1 THEN <<>> ELSE Kept(m.signed)]
ReadAsSent == got.msg = Carries(msg)

\* A frame that arrives whole is read as what was sent, short of the signed
\* revocations a version 1 frame has no place for and the blobs over the limits.
WholeIsReadAsSent == got.read /\ whole => got.ok /\ ReadAsSent

\* Whatever else arrives, a truncated frame never turns into another statement:
\* it is refused, or says what was sent minus the trailer it lost.  The version
\* byte and the signed revocations are found by what is left, so a cut in the
\* wrong place must not read the one as the other.
TornSaysLess ==
    got.read /\ got.ok /\ Len(wire) < Len(encode_control(msg)) =>
        \/ got.msg = [Carries(msg) EXCEPT !.signed = <<>>]
        \/ got.msg = [Carries(msg) EXCEPT !.signed = <<>>, !.ver = 1]

\* Whatever the bytes, an accepted frame made the receiver allocate no more than
\* the limits: blobs of capabilities all together, signed revocations each and
\* in number.
AcceptedIsBounded ==
    got.read /\ got.ok =>
        /\ Carried(got.msg.capabilities) <= MaxCapabilityBytes
        /\ Len(got.msg.signed) <= MaxSigned
        /\ \A i \in DOMAIN got.msg.signed : Len(got.msg.signed[i]) \in 1..MaxBlob
=============================================================================
