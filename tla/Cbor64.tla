-------------------------------- MODULE Cbor64 --------------------------------
(***************************************************************************)
(* The streaming encoder of libutils: CBOR items (cbor64.h, cbor64.c) are  *)
(* written byte by byte to a base64 text (base64.h).  A caller sends items, *)
(* opens and closes arrays and maps, and has strings it repeats replaced by *)
(* references; what it means by that is kept in `sent`, one token an item, *)
(* and `heard` is what the other side has made of the references so far.   *)
(*                                                                          *)
(* A number is its eight bytes, the highest first, so that 64 bits are 64. *)
(***************************************************************************)
EXTENDS Integers, Sequences, SequencesExt

CONSTANTS
    Numbers,        \* the numbers sent, as eight bytes
    Strings,        \* the caller's array of strings, in its first order
    Others,         \* strings that are not in it
    Sample,         \* the strings of both that are sent
    Before,         \* how many of Strings may be sent first, in one go
    MaxScalars,     \* bounds: how many numbers and constants are sent, before
                    \* any string gets an index,
    MaxSent         \* and how much is sent to one text

Byte == 0 .. 255

ASSUME NumbersAssumption == Numbers \subseteq [1 .. 8 -> Byte]
ASSUME StringsAssumption ==
    /\ Strings \in Seq(Seq(Byte \ {0})) /\ Others \subseteq Seq(Byte \ {0})
    /\ IsInjective(Strings) /\ ToSet(Strings) \cap Others = {}
(* The memory is of 2 ^ 31 bytes (boards/maaxboard.dts:1808): no string is  *)
(* as long as that, nor has the array as many.                              *)
ASSUME LengthsAssumption ==
    \A s \in ToSet(Strings) \cup Others \cup {Strings} : Len(s) < 2147483647
ASSUME SampleAssumption == Sample \subseteq ToSet(Strings) \cup Others
ASSUME BeforeAssumption == Before \subseteq 0 .. Len(Strings)

VARIABLES
    out,            \* the streamer: buffer and bits; and the text so far
    domain,         \* the caller's array, what of it was emitted, and how
    open,           \* what is open: how many items are due, whose strings
    put,            \* history: the bytes written to this text,
    sent,           \* what the caller means by them,
    heard,          \* and the strings that the other side has an index for
    text,           \* a second text may follow the first
    script,         \* strings that are sent first, as references
                    \* to byte strings
    left            \* bound: how much more is sent to this text

vars == <<out, domain, open, put, sent, heard, text, script, left>>

-----------------------------------------------------------------------------
(* base64.h                                                                 *)

Padding == 64       \* the character =

WriteSix(o) ==
    IF o.bits < 6 THEN o
    ELSE [o EXCEPT !.bits = @ - 6,
                   !.chars = Append(@, (o.buffer \div 2 ^ (o.bits - 6)) % 64)]

(* Fewer than six bits wait for a byte, so that two rounds are enough.      *)
Written(o) == WriteSix(WriteSix(o))

PutByte(o, b) ==
    Written([o EXCEPT !.buffer = (@ * 256 + b) % 2 ^ 16, !.bits = @ + 8])

Put(o, bytes) ==
    LET after[n \in 0 .. Len(bytes)] ==
            IF n = 0 THEN o ELSE PutByte(after[n - 1], bytes[n])
    IN after[Len(bytes)]

Terminated(o) ==
    IF o.bits = 0 THEN o
    ELSE LET padding == 6 - o.bits
             buffer == (o.buffer * 2 ^ padding) % 2 ^ 16
         IN [buffer |-> buffer, bits |-> 0,
             chars |-> Append(o.chars, buffer % 64)
                          \o [i \in 1 .. padding \div 2 |-> Padding]]

-----------------------------------------------------------------------------
(* The bytes of an item.                                                    *)

(* Major types, additional information and tags.                            *)
UnsignedInt == 0
NegativeInt == 1
ByteString  == 2
Utf8String  == 3
ArrayType   == 4
MapType     == 5
TagType     == 6
SimpleType  == 7
Indefinite  == 31

StringRef       == 25
Shareable       == 28
SharedValue     == 29
StringRefDomain == 256

InitialByte(type, data) == type * 32 + (data % 32)

(* The first of the eight bytes that is not zero, 8 if it is the last.      *)
Leading(number) ==
    CHOOSE i \in 1 .. 8 :
        /\ i = 8 \/ number[i] # 0
        /\ \A j \in 1 .. i - 1 : number[j] = 0

SendItem(type, number) ==
    LET first == Leading(number)
        Sized(info, from) ==
            <<InitialByte(type, info)>> \o SubSeq(number, from, 8)
    IN CASE first = 8 /\ number[8] < 24  -> <<InitialByte(type, number[8])>>
         [] first = 8 /\ number[8] >= 24 -> Sized(24, 8)
         [] first = 7                    -> Sized(25, 7)
         [] first \in {5, 6}             -> Sized(26, 5)
         [] first \in 1 .. 4             -> Sized(27, 1)

(* A length, count, index or tag, all below 2 ^ 31.                         *)
Count(n) == <<0, 0, 0, 0, n \div 2 ^ 24, (n \div 2 ^ 16) % 256, (n \div 256) % 256, n % 256>>

Tag(n) == SendItem(TagType, Count(n))

SendTypedBytes(type, s) == SendItem(type, Count(Len(s))) \o s

(* -1 - number in two's complement.                                         *)
Complement(number) == [i \in 1 .. 8 |-> 255 - number[i]]

SignedInt(number) ==
    IF number[1] >= 128 THEN SendItem(NegativeInt, Complement(number))
                        ELSE SendItem(UnsignedInt, number)

SendSimple(value) ==
    IF value < 24 THEN <<InitialByte(SimpleType, value)>>
                  ELSE <<InitialByte(SimpleType, 24), value>>

SendBreak == <<InitialByte(SimpleType, Indefinite)>>

(* A string is sent as bytes or as UTF-8, whichever its caller asks for.    *)
StringTypes == {ByteString, Utf8String}

Literal(type, s) == SendTypedBytes(type, s)

-----------------------------------------------------------------------------
(* String references: the strings of the array that have been emitted as   *)
(* referable are moved to its start, in the order of their indices.         *)

(* The index of the string in the array, from 0, or the array's length: by  *)
(* its content alone, in whichever type it was emitted.                     *)
FindReference(d, s) ==
    IF s \in ToSet(d.strings)
    THEN SelectInSeq(d.strings, LAMBDA x : x = s) - 1
    ELSE Len(d.strings)

(* The last threshold, for 2 ^ 32 strings, lies beyond any memory here.      *)
IsReferenced(next, length) ==
    CASE next < 24                      -> length >= 3
      [] next >= 24 /\ next < 256       -> length >= 4
      [] next >= 256 /\ next < 2 ^ 16   -> length >= 5
      [] next >= 2 ^ 16                 -> length >= 7

(* Mutant: every string gets an index.                                      *)
NewReferenceAlways(d, index) ==
    LET next == d.emitted
    IN [bytes |-> IF d.shared THEN Tag(Shareable) ELSE <<>>,
        domain |-> [d EXCEPT !.emitted = next + 1,
                             !.strings[next + 1] = d.strings[index + 1],
                             !.strings[index + 1] = d.strings[next + 1]]]

(* Mutant: the array keeps its order.                                       *)
NewReferenceInPlace(d, index) ==
    IF IsReferenced(d.emitted, Len(d.strings[index + 1]))
    THEN [bytes |-> IF d.shared THEN Tag(Shareable) ELSE <<>>,
          domain |-> [d EXCEPT !.emitted = @ + 1]]
    ELSE [bytes |-> <<>>, domain |-> d]

NewReference(d, index) ==
    LET next == d.emitted
    IN IF IsReferenced(next, Len(d.strings[index + 1]))
       THEN [bytes |-> IF d.shared THEN Tag(Shareable) ELSE <<>>,
             domain |-> [d EXCEPT !.emitted = next + 1,
                                  !.strings[next + 1] = d.strings[index + 1],
                                  !.strings[index + 1] = d.strings[next + 1]]]
       ELSE [bytes |-> <<>>, domain |-> d]

ReferenceTo(d, index) ==
    Tag(IF d.shared THEN SharedValue ELSE StringRef) \o SignedInt(Count(index))

(* The bytes for the string, and the domain afterwards.                     *)
EmitReference(d, type, s) ==
    LET index == FindReference(d, s)
        new == NewReference(d, index)
    IN CASE index = Len(d.strings) ->
              [bytes |-> (IF d.shared THEN <<>> ELSE Tag(StringRefDomain)) \o Literal(type, s),
               domain |-> d]
         [] index < d.emitted ->
              [bytes |-> ReferenceTo(d, index), domain |-> d]
         [] index >= d.emitted /\ index < Len(d.strings) ->
              [bytes |-> new.bytes \o Literal(type, s), domain |-> new.domain]

-----------------------------------------------------------------------------
(* The other side: what it reads of characters, of an item and of a call.   *)

(* Four characters are three bytes, fewer by one for each padding.          *)
Unbase64(chars) ==
    LET n == Len(chars)
        padding == IF n < 2 \/ chars[n] # Padding THEN 0
                   ELSE IF chars[n - 1] # Padding THEN 1 ELSE 2
        At(k, i) == chars[4 * ((k - 1) \div 3) + i]
    IN [k \in 1 .. 3 * (n \div 4) - padding |->
            CASE k % 3 = 1 -> At(k, 1) * 4 + At(k, 2) \div 16
              [] k % 3 = 2 -> (At(k, 2) % 16) * 16 + At(k, 3) \div 4
              [] k % 3 = 0 -> (At(k, 3) % 4) * 64 + At(k, 4)]

(* How many bytes follow the initial one.                                   *)
Extra(bytes) ==
    LET info == bytes[1] % 32 IN IF info \in 24 .. 27 THEN 2 ^ (info - 24) ELSE 0

HeadOf(bytes) ==
    LET size == Extra(bytes)
    IN [type   |-> bytes[1] \div 32,
        info   |-> bytes[1] % 32,
        number |-> IF size = 0 THEN Count(bytes[1] % 32)
                   ELSE [i \in 1 .. 8 |-> IF i + size <= 8 THEN 0 ELSE bytes[i + size - 7]],
        rest   |-> SubSeq(bytes, size + 2, Len(bytes))]

Value(number) == ((number[5] * 256 + number[6]) * 256 + number[7]) * 256 + number[8]

IsString(head) == head.type \in {ByteString, Utf8String}

ReadAs(head) ==
    CASE head.type = UnsignedInt -> <<"uint", head.number>>
      [] head.type = NegativeInt -> <<"nint", head.number>>
      [] head.type = ByteString  -> <<"bytes", SubSeq(head.rest, 1, Value(head.number))>>
      [] head.type = Utf8String  -> <<"utf8", SubSeq(head.rest, 1, Value(head.number))>>
      [] head.type = ArrayType   -> <<"array", IF head.info = Indefinite THEN <<>> ELSE head.number>>
      [] head.type = MapType     -> <<"map", IF head.info = Indefinite THEN <<>> ELSE head.number>>
      [] head.type = TagType     -> <<"tag", head.number>>
      [] head.type = SimpleType  ->
            CASE head.info <= 24         -> <<"simple", <<head.number[8]>>>>
              [] head.info = 26          -> <<"float", SubSeq(head.number, 5, 8)>>
              [] head.info = 27          -> <<"double", head.number>>
              [] head.info = Indefinite  -> <<"end", <<>>>>
              [] head.info \in {25} \cup 28 .. 30 -> <<"unknown", <<>>>>

After(head) ==
    IF IsString(head)
    THEN SubSeq(head.rest, Value(head.number) + 1, Len(head.rest)) ELSE head.rest

Whole(head) == IF After(head) = <<>> THEN <<ReadAs(head)>> ELSE <<>>

(* What has an index when `n` strings have one.                             *)
LeastIndexed(n) ==
    IF n < 24 THEN 3 ELSE IF n < 256 THEN 4 ELSE IF n < 2 ^ 16 THEN 5 ELSE 7

Referent(table, i) == IF i + 1 \in DOMAIN table THEN table[i + 1] ELSE <<"dangling", <<>>>>

TagOf(head) == IF head.type = TagType THEN Value(head.number) ELSE -1

(* The items that the bytes of one call are, given the strings so far.      *)
Meaning(bytes, table) ==
    LET head == HeadOf(bytes)
        inner == HeadOf(head.rest)
        tag == TagOf(head)
    IN CASE tag \in {StringRef, SharedValue} -> <<Referent(table, Value(inner.number))>>
         [] tag = Shareable                  -> Whole(inner)
         [] tag = StringRefDomain            -> IF head.rest = <<>> THEN <<>> ELSE Whole(inner)
         [] tag \notin {StringRef, SharedValue, Shareable, StringRefDomain} -> Whole(head)

(* The strings after such a call, in a domain.                              *)
Indexed(bytes, table, shared) ==
    LET head == HeadOf(bytes)
    IN IF shared
       THEN IF TagOf(head) = Shareable THEN table \o Whole(HeadOf(head.rest)) ELSE table
       ELSE IF IsString(head) /\ Value(head.number) >= LeastIndexed(Len(table))
            THEN Append(table, ReadAs(head)) ELSE table

-----------------------------------------------------------------------------
(* The caller.  A frame of `open` is a number of items that are due or one *)
(* of these, and whether the strings in it are the caller's references.     *)

AnyNumber == 0
KeyDue    == -1
ValueDue  == -2

Frame(due, strings) == [due |-> due, strings |-> strings]

(* The frames after an item is complete, and all that it completes.         *)
Completed(frames) ==
    LET unfinished == {i \in 1 .. Len(frames) : frames[i].due # 1}
        last == CHOOSE i \in unfinished : \A j \in unfinished : j <= i
        due == frames[last].due
    IN IF unfinished = {} THEN <<>>
       ELSE [SubSeq(frames, 1, last) EXCEPT
                ![last].due = CASE due > 1         -> due - 1
                                [] due = AnyNumber -> AnyNumber
                                [] due = KeyDue    -> ValueDue
                                [] due = ValueDue  -> KeyDue]

(* Whose strings the next one belongs to: that of the innermost domain.     *)
Within ==
    LET scoped == SelectSeq(open, LAMBDA f : f.strings # "outer")
    IN IF scoped = <<>> THEN "outer" ELSE Last(scoped).strings

MayRefer ==
    /\ domain.live
    /\ domain.shared \/ Within = "refs"

Text(type, s) == <<IF type = Utf8String THEN "utf8" ELSE "bytes", s>>

Sends(bytes, tokens) ==
    /\ IF script = <<>>
       THEN left > 0 /\ left' = left - 1 /\ script' = script
       ELSE tokens = <<Text(ByteString, Head(script))>> /\ script' = Tail(script) /\ left' = left
    /\ out' = Put(out, bytes)
    /\ put' = put \o bytes
    /\ sent' = sent \o tokens
    /\ UNCHANGED text

Item(bytes, token) ==
    /\ Sends(bytes, <<token>>)
    /\ open' = Completed(open)
    /\ UNCHANGED <<domain, heard>>

Scalar(bytes, token) ==
    /\ text = 1 => left > MaxSent - MaxScalars /\ domain.emitted = 0
    /\ Item(bytes, token)

(* The next item belongs to the one started here.                           *)
Opens(bytes, tokens, due, strings) ==
    /\ Sends(bytes, tokens)
    /\ Len(open) < 3
    /\ open' = Append(open, Frame(due, strings))

UnsignedItem(n) == Scalar(SendItem(UnsignedInt, n), <<"uint", n>>)

SignedItem(n) ==
    Scalar(SignedInt(n), IF n[1] >= 128 THEN <<"nint", Complement(n)>> ELSE <<"uint", n>>)

Simple(value) == Scalar(SendSimple(value), <<"simple", <<value>>>>)

Bool(b)   == Simple(IF b # 0 THEN 21 ELSE 20)
Null      == Simple(22)
Undefined == Simple(23)

(* The bytes of a float are its caller's, the highest first.                *)
Float(n)  ==
    Scalar(<<InitialByte(SimpleType, 26)>> \o SubSeq(n, 5, 8), <<"float", SubSeq(n, 5, 8)>>)
Double(n) ==
    Scalar(<<InitialByte(SimpleType, 27)>> \o n, <<"double", n>>)

(* In a domain of references every string is sent as one.                   *)
StringItem(type, s) ==
    Within # "refs" /\ script = <<>> /\ Item(Literal(type, s), Text(type, s))

TagItem(n) ==
    /\ Opens(Tag(n), <<<<"tag", Count(n)>>>>, 1, "outer")
    /\ UNCHANGED <<domain, heard>>

ArrayLength(n) ==
    IF n = 0 THEN Item(SendItem(ArrayType, Count(n)), <<"array", Count(n)>>)
    ELSE /\ Opens(SendItem(ArrayType, Count(n)), <<<<"array", Count(n)>>>>, n, "outer")
         /\ UNCHANGED <<domain, heard>>

MapLength(n) ==
    IF n = 0 THEN Item(SendItem(MapType, Count(n)), <<"map", Count(n)>>)
    ELSE /\ Opens(SendItem(MapType, Count(n)), <<<<"map", Count(n)>>>>, 2 * n, "outer")
         /\ UNCHANGED <<domain, heard>>

ArrayStart ==
    /\ Opens(<<InitialByte(ArrayType, Indefinite)>>, <<<<"array", <<>>>>>>, AnyNumber, "outer")
    /\ UNCHANGED <<domain, heard>>

MapStart ==
    /\ Opens(<<InitialByte(MapType, Indefinite)>>, <<<<"map", <<>>>>>>, KeyDue, "outer")
    /\ UNCHANGED <<domain, heard>>

(* cbor64_array_end and cbor64_map_end.                                     *)
End ==
    /\ open # <<>> /\ Last(open).due \in {AnyNumber, KeyDue}
    /\ Sends(SendBreak, <<<<"end", <<>>>>>>)
    /\ open' = Completed(Front(open))
    /\ UNCHANGED <<domain, heard>>

Domain(strings, shared) ==
    [strings |-> strings, emitted |-> 0, shared |-> shared, live |-> TRUE]

(* The array is not used again in a nested fashion, nor are its domains     *)
(* mixed with that of shared values, of which an output has one.            *)
NewStringRefDomain ==
    /\ Within # "refs" /\ ~(domain.live /\ domain.shared)
    /\ \A i \in 1 .. Len(open) : open[i].strings # "refs"
    /\ Opens(Tag(StringRefDomain), <<>>, 1, "refs")
    /\ domain' = Domain(domain.strings, FALSE)
    /\ heard' = <<>>

NullDomain ==
    /\ ~(domain.live /\ domain.shared)
    /\ Opens(Tag(StringRefDomain), <<>>, 1, "own")
    /\ UNCHANGED <<domain, heard>>

SharedValueDomain ==
    /\ sent = <<>> /\ open = <<>> /\ ~domain.live
    /\ domain' = Domain(domain.strings, TRUE)
    /\ UNCHANGED <<out, open, put, sent, heard, text, script, left>>

(* cbor64_string_ref and cbor64_utf8_ref: any string may be sent by either, *)
(* one that the other has sent before too.                                  *)
StringRefItem(type, s) ==
    LET emitted == EmitReference(domain, type, s)
    IN /\ MayRefer
       /\ Sends(emitted.bytes, <<Text(type, s)>>)
       /\ open' = Completed(open)
       /\ domain' = emitted.domain
       /\ heard' = Indexed(emitted.bytes, heard, domain.shared)

Terminate ==
    /\ open = <<>> /\ script = <<>> /\ text = 1
    /\ out' = [Terminated(out) EXCEPT !.chars = <<>>]
    /\ domain' = [domain EXCEPT !.live = FALSE]
    /\ put' = <<>> /\ sent' = <<>> /\ heard' = <<>> /\ text' = 2 /\ left' = 1
    /\ UNCHANGED <<open, script>>

-----------------------------------------------------------------------------

Fresh == [buffer |-> 0, bits |-> 0, chars |-> <<>>]

(* Nothing has been sent; or an array has been opened, within a domain,     *)
(* and the first strings are about to be sent.                              *)
Init ==
    /\ text = 1 /\ left = MaxSent /\ heard = <<>>
    /\ \/ /\ put = <<>> /\ open = <<>> /\ sent = <<>> /\ script = <<>>
          /\ domain = [Domain(Strings, FALSE) EXCEPT !.live = FALSE]
       \/ \E n \in Before, shared \in BOOLEAN :
            /\ put = (IF shared THEN <<>> ELSE Tag(StringRefDomain))
                         \o <<InitialByte(ArrayType, Indefinite)>>
            /\ domain = Domain(Strings, shared)
            /\ open = (IF shared THEN <<>> ELSE <<Frame(1, "refs")>>)
                            \o <<Frame(AnyNumber, "outer")>>
            /\ sent = <<<<"array", <<>>>>>>
            /\ script = SubSeq(Strings, 1, n)
    /\ out = Put(Fresh, put)

Next ==
    \/ \E n \in Numbers : UnsignedItem(n) \/ SignedItem(n) \/ Float(n) \/ Double(n)
    \/ \E b \in {0, 1} : Bool(b)
    \/ Null \/ Undefined
    \/ \E type \in StringTypes, s \in Sample \cup ToSet(script) :
            StringItem(type, s) \/ StringRefItem(type, s)
    \/ \E n \in {32, 55799} : TagItem(n)
    \/ \E n \in 0 .. 2 : ArrayLength(n) \/ MapLength(n)
    \/ ArrayStart \/ MapStart \/ End
    \/ NewStringRefDomain \/ NullDomain \/ SharedValueDomain
    \/ Terminate

Spec == Init /\ [][Next]_vars

-----------------------------------------------------------------------------
(* Properties.                                                              *)

(* The text terminated at any moment is made of whole groups of characters, *)
(* and base64 gives back every byte written, with none left of an earlier   *)
(* text.                                                                    *)
TextHolds ==
    LET chars == Terminated(out).chars
    IN Len(chars) % 4 = 0 /\ Unbase64(chars) = put

(* The caller's array keeps its strings, and none is ever given an index    *)
(* whose reference would be as long as the string itself.                    *)
ReferencesPay ==
    /\ Len(domain.strings) = Len(Strings) /\ ToSet(domain.strings) = ToSet(Strings)
    /\ \A i \in 1 .. domain.emitted :
        \A type \in StringTypes :
            Len(ReferenceTo(domain, i - 1)) < Len(Literal(type, domain.strings[i]))

New(after, before) == SubSeq(after, Len(before) + 1, Len(after))

Refers(bytes) == TagOf(HeadOf(bytes)) \in {StringRef, SharedValue}

(* The bytes read as what is meant; or they refer to the string that is     *)
(* meant, but one that has been given its index in the other type.          *)
AsMeant(bytes, meant, table) ==
    \/ Meaning(bytes, table) = meant
    \/ /\ Refers(bytes)
       /\ \E given \in ToSet(table), type \in StringTypes :
            Meaning(bytes, table) = <<given>> /\ meant = <<Text(type, given[2])>>

(* Each call writes bytes that read, taken alone, as just the item that the *)
(* caller means: numbers keep their 64 bits, a string its type, and an      *)
(* index is that of the same string on the other side, which only counts    *)
(* the literals it meets while the encoder permutes the caller's array.     *)
(* Only the type of a string that is referred to may not be what the caller *)
(* asks for now, since the encoder compares contents alone (cbor64.c:141):   *)
(* it is the type in which the string got its index.  And references pay.   *)
CallsRight ==
    [][/\ text' = text /\ put' # put => AsMeant(New(put', put), New(sent', sent), heard)
       /\ ReferencesPay']_vars

-----------------------------------------------------------------------------
(* What is always true of the encoder, and inductive.                       *)

(* The six bits that the j-th character stands for.                         *)
Sextet(bytes, j) ==
    LET q == 3 * ((j - 1) \div 4)
    IN CASE j % 4 = 1 -> bytes[q + 1] \div 4
         [] j % 4 = 2 -> (bytes[q + 1] % 4) * 16 + bytes[q + 2] \div 16
         [] j % 4 = 3 -> (bytes[q + 2] % 16) * 4 + bytes[q + 3] \div 64
         [] j % 4 = 0 -> bytes[q + 3] % 64

Streamer == [buffer : Nat, bits : {0, 2, 4}, chars : Seq(0 .. 63)]

(* Between bytes an even number of bits waits, fewer than six: the loop of  *)
(* base64_terminate, which counts an unsigned number down by two, ends.     *)
Streams(o, bytes) ==
    /\ o \in Streamer
    /\ 8 * Len(bytes) = 6 * Len(o.chars) + o.bits
    /\ \A j \in 1 .. Len(o.chars) : o.chars[j] = Sextet(bytes, j)
    /\ o.bits = 2 => o.buffer % 4 = bytes[Len(bytes)] % 4
    /\ o.bits = 4 => o.buffer % 16 = bytes[Len(bytes)] % 16

Kinds == {"uint", "nint", "bytes", "utf8", "array", "map", "tag", "simple",
          "float", "double", "end"}

Items == Kinds \X Seq(Byte)

Domains == [strings : Seq(Seq(Byte)), emitted : Nat, shared : BOOLEAN, live : BOOLEAN]

(* The array is a permutation of the caller's, and the strings before       *)
(* `emitted` were long enough for the index they were given.                *)
Arranged(d) ==
    /\ d \in Domains
    /\ Len(d.strings) = Len(Strings) /\ ToSet(d.strings) = ToSet(Strings)
    /\ IsInjective(d.strings)
    /\ d.emitted <= Len(d.strings)
    /\ \A i \in 1 .. d.emitted : IsReferenced(i - 1, Len(d.strings[i]))

Texts == {"bytes", "utf8"} \X Seq(Byte)

(* The other side has an index for just those strings, in their order, each *)
(* in one of the types.                                                     *)
Knows(table, d) ==
    /\ table \in Seq(Texts)
    /\ Len(table) = IF d.live THEN d.emitted ELSE 0
    /\ \A i \in 1 .. Len(table) : table[i][2] = d.strings[i]

EncoderInv ==
    /\ put \in Seq(Byte) /\ sent \in Seq(Items)
    /\ script \in Seq(ToSet(Strings))
    /\ Streams(out, put)
    /\ Arranged(domain)
    /\ Knows(heard, domain)

=============================================================================
