------------------------------ MODULE MCScreens ------------------------------
(***************************************************************************)
(* The screens that stand on their own, each in behaviours of its own:     *)
(* "part" says which one a behaviour is of, and the others stay as they    *)
(* begin.                                                                  *)
(*                                                                         *)
(* The picker has five states and the texts that tell them apart: "i"      *)
(* begins Idaho, Illinois and Iowa, "id" Idaho alone, "m" Maine and        *)
(* Massachusetts, "x" nothing.  The senator's table has the data           *)
(* viewDidLoad gives every senator: four committees, four bills            *)
(* co-sponsored, a vote for and a vote against.  The directory reads every *)
(* document of up to two members, in which a required element may be       *)
(* missing, empty, or wrapped in white space, and a member may be of a     *)
(* place that is not in the list of states.                                *)
(***************************************************************************)
EXTENDS StatePicker, SenatorTable, TLC

CONSTANT Parts      \* of "picker", "table", "directory"

VARIABLES document, rest, currentString, currentElement, object, objArray, senators,
          parsing, states, part

directoryVars == <<document, rest, currentString, currentElement, object, objArray, senators,
                   parsing, states>>

-----------------------------------------------------------------------------
FiveStates == {"IA", "ID", "IL", "MA", "ME"}
ByTitle == <<"ID", "IL", "IA", "ME", "MA">>
SearchTexts == {"", "i", "id", "m", "x"}
BeginsWith ==
    [t \in SearchTexts |->
        CASE t = ""   -> FiveStates
          [] t = "i"  -> {"IA", "ID", "IL"}
          [] t = "id" -> {"ID"}
          [] t = "m"  -> {"MA", "ME"}
          [] t = "x"  -> {}]

DummyVotes == <<TRUE, FALSE>>
SameCells == Permutations(Cells)

ElementOrder == <<"last_name", "state", "email">>
TwoStates == <<<<"TN">>, <<"WY">>>>
Members ==
    {m \in [{"last_name", "state", "email"} ->
                {Nil, <<>>, <<"TN">>, <<" ", "WY">>, <<"PR">>, <<"Van", " ", "Hollen">>}] :
        /\ m["last_name"] \in {Nil, <<>>, <<"Van", " ", "Hollen">>}
        /\ m["state"] \in {Nil, <<"TN">>, <<" ", "WY">>, <<"PR">>}
        /\ m["email"] \in {Nil, <<"TN">>}}
UpToTwoMembers == UNION {[1 .. n -> Members] : n \in 0 .. 2}

Directory == INSTANCE SenatorDirectory
    WITH Required <- {"last_name", "state"}, Optional <- {"email"}, Order <- ElementOrder,
         Space <- " ", Abbreviations <- TwoStates, Documents <- UpToTwoMembers

ASSUME ScreensAssumption == Directory!ElementsAssumption /\ FilterShortens

-----------------------------------------------------------------------------
ScreensInit ==
    /\ part \in Parts
    /\ Init /\ (part # "picker" => ~cancelButton)
    /\ TableInit
    /\ Directory!Init /\ (part # "directory" => document = <<>>)

ScreensNext ==
    \/ part = "picker" /\ Next /\ UNCHANGED <<tableVars, directoryVars, part>>
    \/ part = "table" /\ TableNext /\ UNCHANGED <<vars, directoryVars, part>>
    \/ part = "directory" /\ Directory!Next /\ UNCHANGED <<vars, tableVars, part>>

ScreensSpec == ScreensInit /\ [][ScreensNext]_<<vars, tableVars, directoryVars, part>>

\* Whatever pieces the parser cuts the document into and wherever it breaks off,
\* the delegate and the two getters (parserDidEndDocument, getSenators, getStates)
\* give the document's senators, each state its own and in order, or none at all
\* when the parse fails.
DirectoryIsTheDocument ==
    part = "directory" => Directory!SenatorsAreTheDocuments /\ Directory!StatesHaveTheirSenators
=============================================================================
