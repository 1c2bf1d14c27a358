--------------------------- MODULE SenatorDirectory --------------------------
(***************************************************************************)
(* From senators.xml to the states the app shows: ParserDelegate turns the *)
(* XML parser's events into senators, SenatorGetter groups them by state,  *)
(* StateGetter hangs them on its list of states.                           *)
(*                                                                         *)
(* The document is a sequence of members, each with the text of its        *)
(* elements.  The parser reports an element's text in as many pieces as it *)
(* likes, and the white space between elements as text, too.  A text is a  *)
(* sequence of tokens, one of them white space.                            *)
(***************************************************************************)
EXTENDS Naturals, Sequences, SequencesExt, FiniteSetsExt

CONSTANTS
    Required,       \* elements Senator.init? insists on, among them "state"
    Optional,       \* other elements of a member
    Order,          \* all of them, in the order of the document
    Space,          \* the white space token
    Abbreviations,  \* the texts that name a state, in the order of their titles
    Documents,      \* the documents to parse
    Nil

ElementsAssumption ==
    /\ "state" \in Required
    /\ Range(Order) = Required \cup Optional
    /\ {"member", "contact_information", "last_updated"} \cap Range(Order) = {}

Elements == Required \cup Optional \cup {"contact_information", "last_updated"}

-----------------------------------------------------------------------------
(* The document as the parser meets it *)

StartOf(name) == [event |-> "start", name |-> name, text |-> <<>>]
EndOf(name)   == [event |-> "end",   name |-> name, text |-> <<>>]
Characters(t) == IF t = <<>> THEN <<>> ELSE <<[event |-> "text", name |-> "", text |-> t]>>

EventsOfElement(member, name) ==
    IF member[name] = Nil THEN <<>>
    ELSE Characters(<<Space>>) \o <<StartOf(name)>> \o Characters(member[name])
            \o <<EndOf(name)>>

EventsOfMember(member) ==
    <<StartOf("member")>>
        \o FlattenSeq([i \in DOMAIN Order |-> EventsOfElement(member, Order[i])])
        \o Characters(<<Space>>) \o <<EndOf("member")>>

EventsOf(document) ==
    <<StartOf("contact_information")>>
        \o FlattenSeq([i \in DOMAIN document |-> EventsOfMember(document[i])])
        \o <<StartOf("last_updated")>> \o Characters(<<"Wednesday", Space>>)
        \o <<EndOf("last_updated"), EndOf("contact_information")>>

-----------------------------------------------------------------------------

VARIABLES
    document,
    rest,               \* events the parser has still to report
    currentString,
    currentElement,
    object,             \* the member being read, Nil for keys it does not have
    objArray,
    senators,
    parsing,            \* "running", "ended" or "failed"
    states              \* StateGetter().states, Nil before

vars == <<document, rest, currentString, currentElement, object, objArray, senators,
          parsing, states>>

NoObject == [name \in Elements |-> Nil]

Init ==
    /\ document \in Documents
    /\ rest = EventsOf(document)
    /\ currentString = <<>>
    /\ currentElement = ""
    /\ object = NoObject
    /\ objArray = <<>>
    /\ senators = <<>>
    /\ parsing = "running"
    /\ states = Nil

\* trimmingCharacters(in: .whitespacesAndNewlines)
Trim(t) ==
    LET solid == {i \in DOMAIN t : t[i] # Space}
    IN  IF solid = {} THEN <<>> ELSE SubSeq(t, Min(solid), Max(solid))

Reports(event) ==
    /\ parsing = "running"
    /\ rest # <<>>
    /\ Head(rest).event = event

TracksElement_Any(name) == TRUE

TracksElement(name) == name # "member"

DidStartElement ==
    LET name == Head(rest).name
    IN  /\ Reports("start")
        /\ rest' = Tail(rest)
        /\ IF TracksElement(name)
           THEN /\ currentElement' = name
                /\ object' = [object EXCEPT ![name] = <<>>]
           ELSE UNCHANGED <<currentElement, object>>
        /\ UNCHANGED <<document, currentString, objArray, senators, parsing, states>>

Extended_Replaced(string, piece) == piece

Extended(string, piece) == string \o piece

\* The parser hands over the next n tokens of a text.
FoundCharacters ==
    LET text == Head(rest).text
    IN  /\ Reports("text")
        /\ \E n \in 1 .. Len(text) :
              /\ currentString' = Extended(currentString, SubSeq(text, 1, n))
              /\ rest' = Characters(SubSeq(text, n + 1, Len(text))) \o Tail(rest)
        /\ UNCHANGED <<document, currentElement, object, objArray, senators, parsing,
                       states>>

AfterMember_Kept == object

\* The next member starts from an empty dictionary.
AfterMember == NoObject

DidEndElement ==
    LET name == Head(rest).name
    IN  /\ Reports("end")
        /\ rest' = Tail(rest)
        /\ objArray' = IF name = "member" THEN Append(objArray, object) ELSE objArray
        /\ object' = CASE name = "member"       -> AfterMember
                       [] name = currentElement -> [object EXCEPT ![name] = Trim(currentString)]
                       [] OTHER                 -> object
        /\ currentString' = IF name = currentElement THEN <<>> ELSE currentString
        /\ UNCHANGED <<document, currentElement, senators, parsing, states>>

\* Senator.init?: nil unless every required key is there.
IsSenator(obj) == \A name \in Required : obj[name] # Nil
Senator(obj) == [name \in Required |-> obj[name]]

\* flatMap: the objects that make a senator, in order.
Senators(objs) ==
    LET found == SelectSeq(objs, IsSenator)
    IN  [i \in DOMAIN found |-> Senator(found[i])]

ParserDidEndDocument ==
    /\ parsing = "running"
    /\ rest = <<>>
    /\ parsing' = "ended"
    /\ senators' = Senators(objArray)
    /\ UNCHANGED <<document, rest, currentString, currentElement, object, objArray, states>>

\* The file is not well formed from here on: the parser stops, and reports the
\* end of no document.
ParseErrorOccurred ==
    /\ parsing = "running"
    /\ rest # <<>>
    /\ parsing' = "failed"
    /\ UNCHANGED <<document, rest, currentString, currentElement, object, objArray,
                   senators, states>>

AddSenator_Overwrites(dictionary, senator) ==
    [s \in DOMAIN dictionary \cup {senator["state"]} |->
        IF s = senator["state"] THEN <<senator>> ELSE dictionary[s]]

\* One turn of SenatorGetter's loop over the senators.
AddSenator(dictionary, senator) ==
    [s \in DOMAIN dictionary \cup {senator["state"]} |->
        IF s # senator["state"] THEN dictionary[s]
        ELSE IF s \in DOMAIN dictionary THEN Append(dictionary[s], senator)
        ELSE <<senator>>]

GetSenators == FoldLeft(AddSenator, <<>>, senators)

\* SenatorGetter groups what the parser left, StateGetter looks every state up.
GetStates ==
    /\ parsing # "running"
    /\ states = Nil
    /\ states' = [i \in DOMAIN Abbreviations |->
                    [abbreviation |-> Abbreviations[i],
                     senators |-> IF Abbreviations[i] \in DOMAIN GetSenators
                                  THEN GetSenators[Abbreviations[i]] ELSE <<>>]]
    /\ UNCHANGED <<document, rest, currentString, currentElement, object, objArray,
                   senators, parsing>>

Next ==
    \/ DidStartElement
    \/ FoundCharacters
    \/ DidEndElement
    \/ ParserDidEndDocument
    \/ ParseErrorOccurred
    \/ GetStates

Spec == Init /\ [][Next]_vars

-----------------------------------------------------------------------------

\* What the document says, read without a parser: the members that have every
\* required element, with the white space around their texts taken off.
Expected ==
    Senators([i \in DOMAIN document |->
        [name \in Elements |->
            IF name \notin Range(Order) \/ document[i][name] = Nil THEN Nil
            ELSE Trim(document[i][name])]])

\* However the parser cuts the text into pieces, no piece is lost and none
\* strays into another element or another member: a parse that ends gives the
\* document's senators, one that fails gives none.
SenatorsAreTheDocuments ==
    CASE parsing = "running" -> senators = <<>>
      [] parsing = "ended"   -> senators = Expected
      [] parsing = "failed"  -> senators = <<>>

\* Each state of the directory gets exactly its own senators, in document order:
\* the two rows of the Home screen are read off this list.
StatesHaveTheirSenators ==
    states # Nil =>
        \A i \in DOMAIN Abbreviations :
            /\ states[i].abbreviation = Abbreviations[i]
            /\ states[i].senators =
                  IF parsing = "failed" THEN <<>>
                  ELSE SelectSeq(Expected, LAMBDA s : s["state"] = Abbreviations[i])
=============================================================================
