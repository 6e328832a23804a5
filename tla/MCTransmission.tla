--------------------------- MODULE MCTransmission ---------------------------
(***************************************************************************)
(* An instance of Transmission for TLC, with the information elements on   *)
(* their own: any few of them, one after the other, as an access point may *)
(* send them.  A behaviour exercises data frames, requests, answers or     *)
(* elements, for they share nothing.                                       *)
(***************************************************************************)
EXTENDS Transmission

CONSTANTS
  MaxElements,   \* a bound
  Contents       \* of elements: identifier and bytes

VARIABLES
  exercised,
  answer,     \* of an access point
  rates,      \* the rates of the device
  elements    \* that an access point sends, or a user adds to a request

given == <<exercised, answer, rates>>

MCInit ==
  /\ Init
  /\ elements = <<>>
  /\ \/ exercised = "data" /\ answer = None /\ rates = {}
     \/ /\ ~associated /\ key = None
        /\ \/ exercised = "requests" /\ answer = None /\ rates = {}
           \/ exercised = "answers" /\ answer \in Answers /\ rates = {}
           \/ exercised = "elements" /\ answer = None /\ rates \in RateSets

DataStep ==
  /\ exercised = "data"
  /\ (\E u \in Users : UserStep(u)) \/ Link \/ ChangeKey
  /\ UNCHANGED <<given, elements>>

RequestStep ==
  /\ exercised = "requests"
  /\ \E request \in Requests : SendManagement(request)
  /\ UNCHANGED <<given, elements>>

AddElement ==
  /\ exercised = "elements" /\ Len(elements) < MaxElements
  /\ \E content \in Contents : elements' = Append(elements, content)
  /\ UNCHANGED <<given, vars>>

MCSpec == MCInit /\ [][DataStep \/ RequestStep \/ AddElement]_<<vars, given, elements>>

-----------------------------------------------------------------------------
Serialized(list) ==
  FoldLeft(LAMBDA bytes, e : bytes \o <<e[1], Len(e[2])>> \o e[2], <<>>, list)

LastOf(list, id, default) ==
  LET same == SelectSeq(list, LAMBDA e : e[1] = id)
  IN  IF same = <<>> THEN default ELSE Last(same)[2]

RatesOf(list) ==
  UNION {ToSet(e[2]) : e \in {e \in ToSet(list) : e[1] \in {IE_ID_RATES, IE_ID_RATES_EXT}}}

\* What a list of elements says that comes after a name and rates: the last of a
\* kind counts, and rates add up.
Says(read, name, before, list) ==
  /\ read.ok
  /\ read.ssid = LastOf(list, IE_ID_SSID, name)
  /\ read.channel = LastOf(list, IE_ID_CHANNEL, <<0>>)[1]
  /\ read.rates = before \cup ({rate % 128 : rate \in RatesOf(list)} \ {126, 127})
  /\ read.rsn = LastOf(list, IE_ID_RSN, <<>>)

IsWellFormed(list) ==
  \A i \in DOMAIN list :
    /\ list[i][1] = IE_ID_SSID => Len(list[i][2]) <= 32
    /\ list[i][1] = IE_ID_RATES => Len(list[i][2]) <= 8
    /\ list[i][1] = IE_ID_CHANNEL => Len(list[i][2]) = 1

\* A frame that ends anywhere is read if it ends after a whole element, and refused
\* if it ends within one or if one is malformed.
ReadsElements ==
  LET bytes == Serialized(elements)
      beginning(n) == SubSeq(elements, 1, n)
      ends == [n \in 0 .. Len(elements) |-> Len(Serialized(beginning(n)))]
      read(size) == process_information_elements(SubSeq(bytes, 1, size))
  IN  /\ \A n \in DOMAIN ends :
           IF IsWellFormed(beginning(n)) THEN Says(read(ends[n]), <<>>, {}, beginning(n))
           ELSE ~read(ends[n]).ok
      /\ \A size \in 0 .. Len(bytes) : (\A n \in DOMAIN ends : size # ends[n]) => ~read(size).ok

\* The elements of a request take the size that was reckoned, end with what the user
\* added as it was given, and say the name and the rates of the device, and after
\* them, where it can be read, what the user added.
WritesElements ==
  \A ssid \in Ssids :
    LET added == Serialized(elements)
        data == association_request_data(ssid, rates, added)
        read == process_information_elements(SubSeq(data, 5, Len(data)))
        name == IF 0 \in ToSet(ssid) THEN SubSeq(ssid, 1, SelectInSeq(ssid, LAMBDA c : c = 0) - 1)
                ELSE ssid
    IN  /\ Len(data) = association_request_data_size(ssid, rates, added)
        /\ IsSuffix(added, data)
        /\ IF IsWellFormed(elements) THEN Says(read, name, rates \cap (0 .. MAX_RATE_VALUE), elements)
           ELSE ~read.ok

\* Elements are read as they were written, by any list of them that an access point
\* may send, and never beyond the end; the elements of a request take just the size
\* that was reckoned for them, and are read as the name, the rates and what the user
\* added.
ElementsAgree == exercised = "elements" => ReadsElements /\ WritesElements

\* Data frames arrive as they were sent, and so do answers.
ReceivedAsSent == DataAsSent /\ (exercised = "answers" => AnswerAsSent(answer))

-----------------------------------------------------------------------------
MCInstalled ==
  {[index |-> 1, cipher |-> "CCMP"], [index |-> 1, cipher |-> "TKIP"],
   [index |-> 3, cipher |-> "WEP40"],
   [index |-> 4, cipher |-> "CCMP"]}

MCRateSets == {{}, {2}, 1 .. 7, 1 .. 8, 1 .. 9, 120 .. 127, 0 .. 127,
               {2, 4, 11, 12, 18, 22, 24, 36, 48, 72, 96, 108}}

Times(byte, n) == [i \in 1 .. n |-> byte]

MCSsids == {<<>>, <<7, 0, 7>>, Times(7, 32)}

MCElements == {<<>>, <<48, 1, 1>>}

MCContents ==
  {<<IE_ID_SSID, Times(7, n)>> : n \in {0, 2, 32, 33}}
  \cup {<<IE_ID_CHANNEL, Times(6, n)>> : n \in 0 .. 2}
  \cup {<<IE_ID_RATES, <<130, 254, 11>>>>, <<IE_ID_RATES, Times(4, 8)>>, <<IE_ID_RATES, Times(4, 9)>>,
        <<IE_ID_RATES_EXT, <<127, 125>> \o Times(24, 8)>>,
        <<IE_ID_RSN, <<1, 0>>>>, <<IE_ID_RSN, <<>>>>, <<221, <<0, 1>>>>}

=============================================================================
