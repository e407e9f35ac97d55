------------------------------ MODULE CborReader ------------------------------
(***************************************************************************)
(* A reader of whole texts: base64, then items within items, with string   *)
(* references and shared values.  Its operators are recursive.              *)
(***************************************************************************)
EXTENDS Cbor64

Got(d, token, rest) == [d EXCEPT !.tokens = Append(@, token), !.rest = rest]

(* The number that was read last stands for a string.                       *)
Referred(d, table) ==
    [d EXCEPT !.tokens = Append(Front(@), Referent(table, Value(Last(@)[2])))]

RECURSIVE DecodedItem(_), DecodedItems(_, _)

DecodedTag(d, tag) ==
    LET item == DecodedItem(IF tag = StringRefDomain THEN [d EXCEPT !.table = <<>>] ELSE d)
    IN CASE tag \notin {StringRefDomain, StringRef, SharedValue, Shareable} ->
              DecodedItem([d EXCEPT !.tokens = Append(@, <<"tag", Count(tag)>>)])
         [] tag = StringRefDomain -> [item EXCEPT !.table = d.table]
         [] tag = Shareable       -> [item EXCEPT !.shared = Append(@, Last(item.tokens))]
         [] tag = StringRef       -> Referred(item, d.table)
         [] tag = SharedValue     -> Referred(item, d.shared)

DecodedItem(d) ==
    IF d.rest = <<>> THEN d
    ELSE IF Len(d.rest) <= Extra(d.rest) THEN Got(d, <<"cut short", <<>>>>, <<>>)
    ELSE
    LET head == HeadOf(d.rest)
        n == Value(head.number)
        read == Got(d, ReadAs(head), After(head))
        items == IF head.info = Indefinite THEN -1
                 ELSE IF head.type = MapType THEN 2 * n ELSE n
    IN CASE head.type \in {UnsignedInt, NegativeInt, SimpleType} -> read
         [] IsString(head) ->
              IF n > Len(head.rest) THEN Got(d, <<"cut short", <<>>>>, <<>>)
              ELSE [read EXCEPT !.table =
                      IF n >= LeastIndexed(Len(@)) THEN Append(@, ReadAs(head)) ELSE @]
         [] head.type \in {ArrayType, MapType} -> DecodedItems(read, items)
         [] head.type = TagType -> DecodedTag([d EXCEPT !.rest = head.rest], n)

(* So many items, or up to a break.                                         *)
DecodedItems(d, n) ==
    CASE n = 0 \/ d.rest = <<>> -> d
      [] n > 0 /\ d.rest # <<>> -> DecodedItems(DecodedItem(d), n - 1)
      [] n < 0 /\ d.rest # <<>> ->
           IF d.rest[1] = 255 THEN Got(d, <<"end", <<>>>>, Tail(d.rest))
                              ELSE DecodedItems(DecodedItem(d), n)

RECURSIVE Decoded(_)
Decoded(d) == IF d.rest = <<>> THEN d.tokens ELSE Decoded(DecodedItem(d))

(* What is read is what was meant, but that a string may be read in a type  *)
(* in which the caller had sent the same string before.                     *)
Faithful(read, meant) ==
    /\ Len(read) = Len(meant)
    /\ \A i \in 1 .. Len(meant) :
        read[i] # meant[i] =>
            /\ read[i] \in Texts \cap ToSet(SubSeq(meant, 1, i - 1))
            /\ \E type \in StringTypes : meant[i] = Text(type, read[i][2])

(* Whatever a caller sends, and wherever it stops, the text it terminates  *)
(* decodes to just that: numbers keep their 64 bits, each reference leads  *)
(* to the string it stands for in the domain it is in, though the encoder  *)
(* only permutes the caller's array and the decoder counts the literals it *)
(* meets, and nothing of one text is left over for the next.  A caller     *)
(* that sends a string now as bytes and now as UTF-8 may find it read in   *)
(* the other type, since the encoder compares contents alone; one that      *)
(* always sends it in one type finds exactly what it sent.                  *)
Decodes ==
    /\ TextHolds
    /\ Faithful(Decoded([rest |-> Unbase64(Terminated(out).chars), tokens |-> <<>>,
                         table |-> <<>>, shared |-> <<>>]), sent)

=============================================================================
