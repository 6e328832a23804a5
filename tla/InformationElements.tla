------------------------ MODULE InformationElements ------------------------
(***************************************************************************)
(* The information elements of src/packet_management.c: an identifier, a   *)
(* size and as many bytes, one element after the other.  Read from the     *)
(* frames of access points, whatever they hold, and written into requests. *)
(*                                                                         *)
(* A bitmap of rates is the set of the rates whose bits are set.           *)
(*                                                                         *)
(* A definition named X_Y, with a capital Y, is X with a defect.           *)
(***************************************************************************)
EXTENDS Integers, FiniteSets, Sequences, SequencesExt

IE_ID_SSID == 0
IE_ID_RATES == 1
IE_ID_CHANNEL == 3
IE_ID_RSN == 48
IE_ID_RATES_EXT == 50
MAX_SSID_SIZE == 32
MAX_RATE_VALUE == 125
ASSOCIATION_REQUEST_FIXED_SIZE == 4

-----------------------------------------------------------------------------
(***************************************************************************)
(* Reading.                                                                *)
(***************************************************************************)

\* The top bit marks a basic rate, and two values have other meanings.
handle_rates(bitmap, rates) == bitmap \cup ({rate % 128 : rate \in ToSet(rates)} \ {126, 127})

\* Sizes for which a known element is no element.
Malformed(id, size) ==
  \/ id = IE_ID_SSID /\ size > MAX_SSID_SIZE
  \/ id = IE_ID_CHANNEL /\ size # 1
  \/ id = IE_ID_RATES /\ size > 8

\* There is a whole element at an offset.
Fits(bytes, offset) ==
  /\ Len(bytes) - offset >= 2
  /\ Len(bytes) - (offset + 2) >= bytes[offset + 2]

\* The elements the loop of process_information_elements comes to, in order, up to
\* the first that is not whole or malformed.
ElementsOf(bytes) ==
  LET from[offset \in 0 .. Len(bytes)] ==
        LET id == bytes[offset + 1]
            size == bytes[offset + 2]
        IN  IF offset = Len(bytes) THEN <<>>
            ELSE IF ~Fits(bytes, offset) \/ Malformed(id, size) THEN <<[ok |-> FALSE]>>
            ELSE <<[ok |-> TRUE, id |-> id,
                    content |-> SubSeq(bytes, offset + 3, offset + 2 + size)]>>
                   \o from[offset + 2 + size]
  IN  from[0]

\* What becomes of an element; an unknown one is skipped.
Handle(read, element) ==
  IF ~element.ok THEN [read EXCEPT !.ok = FALSE]
  ELSE CASE element.id = IE_ID_SSID -> [read EXCEPT !.ssid = element.content]
         [] element.id = IE_ID_CHANNEL -> [read EXCEPT !.channel = element.content[1]]
         [] element.id \in {IE_ID_RATES, IE_ID_RATES_EXT} ->
              [read EXCEPT !.rates = handle_rates(@, element.content)]
         [] element.id = IE_ID_RSN -> [read EXCEPT !.rsn = element.content]
         [] OTHER -> read

NothingRead == [ok |-> TRUE, ssid |-> <<>>, channel |-> 0, rates |-> {}, rsn |-> <<>>]

process_information_elements(bytes) == FoldLeft(Handle, NothingRead, ElementsOf(bytes))

-----------------------------------------------------------------------------
(***************************************************************************)
(* Writing.                                                                *)
(***************************************************************************)

Smaller(a, b) == IF a < b THEN a ELSE b

\* The rates that are written, in order.
Written(bitmap) ==
  LET below[rate \in 0 .. MAX_RATE_VALUE + 1] ==
        IF rate = 0 THEN <<>>
        ELSE IF rate - 1 \in bitmap THEN Append(below[rate - 1], rate - 1) ELSE below[rate - 1]
  IN  below[MAX_RATE_VALUE + 1]

count_rates(bitmap) == Cardinality({rate \in bitmap : rate <= MAX_RATE_VALUE})

rate_information_elements_size(rate_count) ==
  2 + Smaller(rate_count, 8) + (IF rate_count > 8 THEN 2 + rate_count - 8 ELSE 0)

ExtendedHeader_EvenIfEmpty(extended_rate_count) == <<IE_ID_RATES_EXT, extended_rate_count>>
\* Comes between the rates that the first element holds and the others.
ExtendedHeader(extended_rate_count) ==
  IF extended_rate_count = 0 THEN <<>> ELSE <<IE_ID_RATES_EXT, extended_rate_count>>

serialize_rate_information_elements(bitmap, rate_count) ==
  LET supported == Smaller(rate_count, 8)
  IN  <<IE_ID_RATES, supported>> \o SubSeq(Written(bitmap), 1, supported)
        \o ExtendedHeader(rate_count - supported)
        \o SubSeq(Written(bitmap), supported + 1, rate_count)

-----------------------------------------------------------------------------
(***************************************************************************)
(* The data of the two requests, and its size as it was reckoned before.   *)
(***************************************************************************)

probe_request_data_size(bitmap) == 2 + rate_information_elements_size(count_rates(bitmap))

probe_request_data(bitmap) ==
  <<IE_ID_SSID, 0>> \o serialize_rate_information_elements(bitmap, count_rates(bitmap))

\* The name of an access point ends at a zero.
Name(ssid) ==
  CHOOSE name \in {SubSeq(ssid, 1, size) : size \in 0 .. Len(ssid)} :
    /\ 0 \notin ToSet(name)
    /\ Len(name) < Len(ssid) => ssid[Len(name) + 1] = 0

association_request_data_size(ssid, bitmap, information_elements) ==
  ASSOCIATION_REQUEST_FIXED_SIZE + 2 + Len(Name(ssid))
    + rate_information_elements_size(count_rates(bitmap)) + Len(information_elements)

\* 0x0421 are the capabilities, 10 is the interval.
association_request_data(ssid, bitmap, information_elements) ==
  <<33, 4, 10, 0, IE_ID_SSID, Len(Name(ssid))>> \o Name(ssid)
    \o serialize_rate_information_elements(bitmap, count_rates(bitmap))
    \o information_elements

=============================================================================
