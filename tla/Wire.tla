-------------------------------- MODULE Wire --------------------------------
(***************************************************************************)
(* The payload of an UPDATE or BULK_SYNC message: how serialize_object,    *)
(* serialize_object_all_fields and serialize_internal_object (tha_sync.c)  *)
(* write an object into the growing buffer of serialize.c, and how         *)
(* de_serialize_object and de_serialize_internal_object read it back.      *)
(*                                                                         *)
(* Memory and buffer are counted in words of four bytes.  A word is a      *)
(* number, the address of an object (which is its obj_id on the wire), or  *)
(* one of the marks below.  One action handles one field of one unit.      *)
(*                                                                         *)
(* Which messages are sent, and what happens to objects the standby does   *)
(* not know, is the subject of Replication; here the standby knows every   *)
(* object, and there is one message under way at a time.                   *)
(***************************************************************************)
EXTENDS Integers, Sequences

CONSTANTS
    Fields,     \* fields of the structure: "DATA", "PTR" or "EMB"
    Inner,      \* fields of its embedded structure: "DATA" or "PTR"
    MaxUnits,   \* bound: objects in an array
    Number,     \* contents of a data field
    Id,         \* objects that have a record
    Foreign,    \* a pointer to memory without a record
    Mark,       \* NOT_THA_ENABLED_POINTER
    Rest,       \* a word of a name that is not its first
    Garbage,    \* a word that is none of these
    NameWords,  \* MAX_STRUCTURE_NAME_SIZE, in words
    InitWords,  \* SERIALIZE_BUFFER_DEFAULT_SIZE, in words
    RecvWords,  \* what recvfrom takes of a message, less its header, in words
    MaxWork     \* bound: stores of the application and messages

ASSUME FieldsAssumption ==
    /\ Fields \in Seq({"DATA", "PTR", "EMB"}) /\ Fields # <<>>
    /\ Inner \in Seq({"DATA", "PTR"}) /\ Inner # <<>>
ASSUME NumberAssumption == Number \subseteq Nat /\ 0 \in Number
ASSUME SizesAssumption ==
    /\ MaxUnits \in Nat \ {0} /\ NameWords \in Nat \ {0}
    /\ InitWords \in Nat \ {0} /\ RecvWords \in Nat
    /\ MaxWork \in Nat
\* A name, the mark and a number can be told apart.
ASSUME WordsAssumption ==
    /\ Id \cap Nat = {}
    /\ Mark \notin Nat \cup Id
    /\ Foreign \notin Nat \cup Id

VARIABLES
    units,  \* objects in the array (obj_rec->units)
    mem,    \* active: mem[u][f] is the sequence of words of field f of unit u
    hash,   \* active: the contents that the stored hashes were computed from
    copy,   \* standby: the object
    buf,    \* the buffer: words written so far and its size
    pc,     \* "app", "unit", "field" (serializing), "read_unit", "read_field",
            \* or "dead" after a failed assertion or a wild read
    op,     \* "UPDATE" or "BULK"
    unit,   \* loop counters obj_index and i, of both sides
    field,
    nfields,\* n_fields_changed: counted on the active, left to read on the standby
    count,  \* position of the word that will hold n_fields_changed
    next,   \* standby: words read so far
    work,   \* stores of the application and messages so far
    want,   \* history: what the standby should hold after the last message
    harm    \* history: the ways in which the last message was damaged

sides == <<units, mem, hash, copy, want>>
counters == <<op, unit, field, nfields, count, next, work>>
vars == <<sides, buf, pc, counters, harm>>

NFields == Len(Fields)
Unit == 1..units
Field == 1..NFields

\* Types of the words of a field, in the order of their offsets.
Types(f) == IF Fields[f] = "EMB" THEN Inner ELSE <<Fields[f]>>
Contents(t) == IF t = "DATA" THEN Number ELSE {0, Foreign} \cup Id
Object == [u \in Unit |-> [f \in Field |-> [k \in DOMAIN Types(f) |-> 0]]]

(***************************************************************************)
(* The buffer of serialize.c.                                              *)
(***************************************************************************)

NewBuffer == [w |-> <<>>, size |-> InitWords]

\* The size after doubling it until n more words fit.
Grown(b, n) ==
    LET doubled[i \in 0..n] == IF i = 0 THEN b.size ELSE 2 * doubled[i - 1]
        enough == {i \in 0..n : doubled[i] - Len(b.w) >= n}
    IN  doubled[CHOOSE i \in enough : \A j \in enough : i <= j]

\* Mutant: the buffer is not enlarged.
PutUngrown(b, words) == [b EXCEPT !.w = @ \o words]

\* serialize_int32 and serialize_string.
Put(b, words) == [w |-> b.w \o words, size |-> Grown(b, Len(words))]

\* serialize_buffer_skip: the words skipped are 0 where calloc made them, and
\* whatever realloc left there, fill, behind the initial buffer.
Skip(b, n, fill) ==
    [w |-> b.w \o [i \in 1..n |-> IF Len(b.w) + i <= InitWords THEN 0 ELSE fill],
     size |-> Grown(b, n)]

\* copy_in_serialized_buffer_by_offset refuses to write when there is not a
\* word left at the end of the buffer, wherever it should write.
Fits(b) == b.size - Len(b.w) >= 1
Patch(b, i, n) == IF Fits(b) THEN [b EXCEPT !.w[i] = n] ELSE b

Name(first) == [i \in 1..NameWords |-> IF i = 1 THEN first ELSE Rest]

\* What realloc can leave in a word: zeros, the rest of an old message, or
\* anything else.
Junk == {0, Mark, Garbage} \cup Id

\* A pointer: nothing is written for NULL, the slot is skipped; whatever is
\* neither NULL nor the address of a registered object becomes the mark.
PutPointer(b, p, fill) ==
    CASE p = 0 -> Skip(b, NameWords, fill)
      [] p \in Id -> Put(b, Name(p))
      [] OTHER -> Skip(Put(b, <<Mark>>), NameWords - 1, fill)

\* One word of a field: done.b is the buffer so far, done.k the word to take.
\* serialize_internal_object does not step over a NULL pointer, so what comes
\* after it is taken from its place.
PutWord(done, t, words, fill) ==
    LET w == words[done.k]
    IN  IF t = "DATA"
        THEN [b |-> Put(done.b, <<w>>), k |-> done.k + 1]
        ELSE [b |-> PutPointer(done.b, w, fill), k |-> IF w = 0 THEN done.k ELSE done.k + 1]

PutWords(b, types, words, fill) ==
    LET done[i \in 0..Len(types)] ==
            IF i = 0 THEN [b |-> b, k |-> 1] ELSE PutWord(done[i - 1], types[i], words, fill)
    IN  done[Len(types)].b

\* The index of a field and its contents: a field that is not embedded is
\* written as a structure with this field alone would be.
PutField(b, f, words, fill) == PutWords(Put(b, <<f - 1>>), Types(f), words, fill)

Init == /\ units \in 1..MaxUnits
        /\ mem = Object
        /\ hash = Object
        /\ copy = Object
        /\ want = Object
        /\ buf = NewBuffer
        /\ pc = "app"
        /\ op = "UPDATE"
        /\ unit = 1 /\ field = 1 /\ nfields = 0 /\ count = 0 /\ next = 0
        /\ work = 0
        /\ harm = {}

(***************************************************************************)
(* The active machine.                                                     *)
(***************************************************************************)

\* The application stores a word.
Store(u, f, k, w) ==
    /\ pc = "app" /\ work < MaxWork
    /\ w # mem[u][f][k]
    /\ mem' = [mem EXCEPT ![u][f][k] = w]
    /\ work' = work + 1
    /\ UNCHANGED <<units, hash, copy, want, buf, pc, op, unit, field, nfields, count, next, harm>>

\* The obj_id and the name of the structure.
Start(o) ==
    /\ pc = "app" /\ work < MaxWork
    /\ o = "UPDATE" => mem # hash
    /\ work' = work + 1
    /\ op' = o
    /\ buf' = Put(Put(NewBuffer, Name(Garbage)), Name(Garbage))
    /\ pc' = "unit"
    /\ unit' = 1
    /\ want' = copy
    /\ harm' = {}
    /\ UNCHANGED <<units, mem, hash, copy, field, nfields, count, next>>

\* Mutant: a bulk sync announces a field too few.
UnitStartShort ==
    /\ pc = "unit" /\ unit <= units
    /\ buf' = Put(buf, <<IF op = "BULK" THEN NFields - 1 ELSE 0>>)
    /\ count' = Len(buf.w) + 1
    /\ pc' = "field"
    /\ field' = 1
    /\ nfields' = 0
    /\ UNCHANGED <<sides, op, unit, next, harm, work>>

\* Room for the number of fields of a unit, or the number itself.
UnitStart ==
    /\ pc = "unit" /\ unit <= units
    /\ buf' = Put(buf, <<IF op = "BULK" THEN NFields ELSE 0>>)
    /\ count' = Len(buf.w) + 1
    /\ pc' = "field"
    /\ field' = 1
    /\ nfields' = 0
    /\ UNCHANGED <<sides, op, unit, next, harm, work>>

InField == pc = "field" /\ field <= NFields
Words == mem[unit][field]

\* An UPDATE leaves out a field whose hash agrees.
FieldSkip ==
    /\ InField
    /\ op = "UPDATE" /\ Words = hash[unit][field]
    /\ field' = field + 1
    /\ UNCHANGED <<sides, buf, pc, op, unit, nfields, count, next, harm, work>>

HasNull == \E k \in DOMAIN Words : Types(field)[k] = "PTR" /\ Words[k] = 0
Expected == [k \in DOMAIN Words |-> IF Words[k] = Foreign THEN want[unit][field][k] ELSE Words[k]]

\* Harm that a field does: a NULL pointer inside an embedded structure that is
\* not its last field, and one that ends a field behind the initial buffer, where
\* it is not certain that the slot it skips holds zeros.
FieldHarm(after) ==
    {h \in {"junk", "shift"} :
        IF h = "junk"
        THEN HasNull /\ Len(after.w) - NameWords >= InitWords
        ELSE \E k \in 1..(Len(Words) - 1) : Types(field)[k] = "PTR" /\ Words[k] = 0}

FieldPut(fill) ==
    /\ InField
    /\ op = "UPDATE" => Words # hash[unit][field]
    /\ buf' = PutField(buf, field, Words, fill)
    /\ hash' = IF op = "UPDATE" THEN [hash EXCEPT ![unit][field] = Words] ELSE hash
    /\ nfields' = nfields + 1
    /\ want' = [want EXCEPT ![unit][field] = Expected]
    /\ harm' = harm \cup FieldHarm(buf')
    /\ field' = field + 1
    /\ UNCHANGED <<units, mem, copy, pc, op, unit, count, next, work>>

\* The number of fields of an UPDATE is filled in.
UnitEnd ==
    /\ pc = "field" /\ field > NFields
    /\ buf' = IF op = "UPDATE" THEN Patch(buf, count, nfields) ELSE buf
    /\ harm' = IF op = "UPDATE" /\ nfields > 0 /\ ~Fits(buf) THEN harm \cup {"count"} ELSE harm
    /\ pc' = "unit"
    /\ unit' = unit + 1
    /\ UNCHANGED <<sides, op, field, nfields, count, next, work>>

\* The payload is sent behind its header, and the standby reads what recvfrom
\* takes of it; it skips the two names.
Send ==
    /\ pc = "unit" /\ unit > units
    /\ buf' = [buf EXCEPT !.w = SubSeq(@, 1, IF Len(@) <= RecvWords THEN Len(@) ELSE RecvWords)]
    /\ harm' = IF Len(buf.w) > RecvWords THEN harm \cup {"cut"} ELSE harm
    /\ next' = 2 * NameWords
    /\ pc' = "read_unit"
    /\ unit' = 1
    /\ UNCHANGED <<sides, op, field, nfields, count, work>>

(***************************************************************************)
(* The standby.                                                            *)
(***************************************************************************)

\* Reading n words when there are not so many fails an assertion of
\* de_serialize_string, or looks behind the end of the message.
Has(n) == next + n <= Len(buf.w)
Word == buf.w[next + 1]

Die == /\ pc' = "dead"
       /\ UNCHANGED <<sides, buf, counters, harm>>

ReadUnit ==
    /\ pc = "read_unit" /\ unit <= units
    /\ Has(1) /\ Word \in Nat
    /\ nfields' = Word
    /\ next' = next + 1
    /\ pc' = "read_field"
    /\ UNCHANGED <<sides, buf, op, unit, field, count, harm, work>>

ReadUnitFails ==
    /\ pc = "read_unit" /\ unit <= units
    /\ ~(Has(1) /\ Word \in Nat)
    /\ Die

ReadUnitEnd ==
    /\ pc = "read_field" /\ nfields = 0
    /\ pc' = "read_unit"
    /\ unit' = unit + 1
    /\ UNCHANGED <<sides, buf, op, field, nfields, count, next, harm, work>>

\* Mutant: the mark of an unknown pointer is taken for the name of an object.
AppliedUnmarked(t, w, old) == IF t = "DATA" \/ w \in Id THEN w ELSE 0

\* What a field holds after a word of the message is applied to it: the name
\* of no object gives NULL.
Applied(t, w, old) ==
    CASE t = "DATA" -> w
      [] w = Mark -> old
      [] OTHER -> IF w \in Id THEN w ELSE 0

\* Words that a value of type t takes in the message, how many of them come
\* before the word k + 1 of field f, and where word k is found when the field
\* starts behind position p.
Span(t) == IF t = "DATA" THEN 1 ELSE NameWords
Offsets(f) ==
    LET sum[k \in 0..Len(Types(f))] == IF k = 0 THEN 0 ELSE sum[k - 1] + Span(Types(f)[k])
    IN  sum
At(p, f, k) == p + Offsets(f)[k - 1] + 1
FieldSpan(f) == Offsets(f)[Len(Types(f))]

Index == Word + 1
Readable == Has(1) /\ Word \in Nat /\ Index \in Field /\ Has(1 + FieldSpan(Index))

\* de_serialize_object, de_serialize_internal_object: one field.
ReadField ==
    /\ pc = "read_field" /\ nfields > 0
    /\ Readable
    /\ copy' = [copy EXCEPT ![unit][Index] =
                   [k \in DOMAIN @ |->
                       Applied(Types(Index)[k], buf.w[At(next + 1, Index, k)], @[k])]]
    /\ next' = next + 1 + FieldSpan(Index)
    /\ nfields' = nfields - 1
    /\ UNCHANGED <<units, mem, hash, want, buf, pc, op, unit, field, count, harm, work>>

ReadFieldFails ==
    /\ pc = "read_field" /\ nfields > 0
    /\ ~Readable
    /\ Die

\* The message is done with.
Done ==
    /\ pc = "read_unit" /\ unit > units
    /\ pc' = "app"
    /\ buf' = NewBuffer
    /\ op' = "UPDATE" /\ unit' = 1 /\ field' = 1 /\ nfields' = 0 /\ count' = 0 /\ next' = 0
    /\ UNCHANGED <<sides, work, harm>>

Next ==
    \/ \E u \in Unit, f \in Field : \E k \in DOMAIN Types(f) :
           \E w \in Contents(Types(f)[k]) : Store(u, f, k, w)
    \/ \E o \in {"UPDATE", "BULK"} : Start(o)
    \/ UnitStart \/ FieldSkip \/ (\E fill \in Junk : FieldPut(fill)) \/ UnitEnd \/ Send
    \/ ReadUnit \/ ReadUnitFails \/ ReadUnitEnd \/ ReadField \/ ReadFieldFails \/ Done

Spec == Init /\ [][Next]_vars

(***************************************************************************)
(* Properties.                                                             *)
(***************************************************************************)

AnyWord == Nat \cup Id \cup {Foreign, Mark, Rest, Garbage}

IsObject(m) ==
    /\ m \in [Unit -> [Field -> Seq(AnyWord)]]
    /\ \A u \in Unit, f \in Field : Len(m[u][f]) = Len(Types(f))

\* Every variable stays in its set, and the buffer holds what was written.
TypeOK ==
    /\ IsObject(mem) /\ IsObject(hash) /\ IsObject(copy) /\ IsObject(want)
    /\ \A u \in Unit, f \in Field : \A k \in DOMAIN Types(f) :
           mem[u][f][k] \in Contents(Types(f)[k])
    /\ buf \in [w : Seq(AnyWord), size : Nat \ {0}]
    /\ Len(buf.w) <= buf.size
    /\ pc \in {"app", "unit", "field", "read_unit", "read_field", "dead"}
    /\ op \in {"UPDATE", "BULK"}
    /\ units \in 1..MaxUnits
    /\ unit \in 1..(units + 1)
    /\ field \in 1..(NFields + 1)
    /\ nfields \in Nat /\ count \in Nat /\ next \in Nat
    /\ work \in 0..MaxWork
    /\ harm \subseteq {"junk", "count", "shift", "cut"}

\* Unless a message is damaged in one of the four ways, the standby reads it to
\* its end, and takes from it exactly the fields that the active put into it:
\* for any number of units, any growth of the buffer and any damage that was
\* done before, with pointers to memory without a record left as they were.
Faithful == harm = {} => pc # "dead" /\ (pc = "app" => copy = want)

\* An undamaged bulk sync leaves the standby with the memory of the active, up
\* to pointers that have no meaning there, whatever it held before and whatever
\* the stored hashes say (tha_heap_bulk_synchronization).
BulkRefreshes ==
    op = "BULK" /\ pc = "read_unit" /\ unit > units /\ harm = {} =>
        \A u \in Unit, f \in Field : \A k \in DOMAIN mem[u][f] :
            mem[u][f][k] \in {Foreign, copy[u][f][k]}
=============================================================================
