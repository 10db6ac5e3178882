---------------------------- MODULE FilePrinting ----------------------------
(***************************************************************************)
(* PrintBitmap and PrintPDF417: the detour reads the file the application  *)
(* names and sends its data; the handler's method, run by one server       *)
(* thread per client, puts them into a temporary file, has the file        *)
(* printed, and deletes it.                                                *)
(*                                                                         *)
(* The threads share the server's temporary directory.  A call is in one   *)
(* of the stages "idle", "asked" (request under way), "named" (temporary   *)
(* file created), "written", "printed", "done" (reply under way).          *)
(* "printed" is the printer's log, "mishaps" the failures of the directory *)
(* and of the server so far, a bound as well as history.  TakenNames,      *)
(* CreateWaits and Undeleted are slips the code could have made in place   *)
(* of their neighbours.                                                    *)
(***************************************************************************)
EXTENDS Naturals, Sequences

CONSTANTS
    Clients,
    TempNames,  \* the names GetTempFileName can make
    Files,      \* contents of the files applications print: sequences of
                \* "x", "CR", "LF" and "Z" (Control-Z)
    NoName,
    MaxPrints,  \* bound: calls
    MaxMishaps  \* bound: failures

Bytes == {"x", "CR", "LF", "Z"}

ASSUME ConstantsAssumption ==
    /\ NoName \notin TempNames
    /\ Files \subseteq Seq(Bytes)
    /\ MaxPrints \in Nat
    /\ MaxMishaps \in Nat

VARIABLES
    temp,       \* the temporary files which exist: name -> content
    call,       \* each client's call
    printed,    \* what the printer has printed: call and data
    prints, mishaps

vars == <<temp, call, printed, prints, mishaps>>

Idle == [stage |-> "idle", file |-> <<>>, data |-> <<>>, name |-> NoName]

-----------------------------------------------------------------------------
(* read_from_file: an ifstream in text mode ends at Control-Z and reads    *)
(* CR LF as LF.                                                            *)
Ended(f) ==
    LET zs == {i \in DOMAIN f : f[i] = "Z"} IN
    SubSeq(f, 1, IF zs = {} THEN Len(f) ELSE (CHOOSE i \in zs : \A j \in zs : i <= j) - 1)

TextRead(f) ==
    LET g == Ended(f)
        kept[i \in 0 .. Len(g)] ==
            IF i = 0 THEN <<>>
            ELSE IF g[i] = "CR" /\ i < Len(g) /\ g[i + 1] = "LF" THEN kept[i - 1]
            ELSE Append(kept[i - 1], g[i])
    IN kept[Len(g)]

ASSUME TextReadAssumption == \A f \in Files : TextRead(f) \in Seq(Bytes)

(* The detour; a file that cannot be read ends the call on the client.     *)
Ask(c) ==
    /\ call[c] = Idle
    /\ prints < MaxPrints
    /\ prints' = prints + 1
    /\ \E f \in Files :
          call' = [call EXCEPT ![c] = [Idle EXCEPT !.stage = "asked", !.file = f,
                                                   !.data = TextRead(f)]]
    /\ UNCHANGED <<temp, printed, mishaps>>

-----------------------------------------------------------------------------
(* The handler.                                                            *)

Mishap == mishaps < MaxMishaps /\ mishaps' = mishaps + 1

Reaches(c, stage) == call' = [call EXCEPT ![c].stage = stage]

(* Empty data are answered with 0 at once.                                 *)
NothingToPrint(c) ==
    /\ call[c].stage = "asked"
    /\ call[c].data = <<>>
    /\ Reaches(c, "done")
    /\ UNCHANGED <<temp, printed, prints, mishaps>>

(* getTempPath: GetTempFileNameA is asked for a unique name and creates    *)
(* the file, so that nobody gets the name before the file is deleted.      *)
TakenNames == TempNames
FreeNames == TempNames \ DOMAIN temp

Create(c) ==
    /\ call[c].stage = "asked"
    /\ call[c].data # <<>>
    /\ \E n \in FreeNames :
          /\ temp' = [m \in DOMAIN temp \cup {n} |-> IF m = n THEN <<>> ELSE temp[m]]
          /\ call' = [call EXCEPT ![c].stage = "named", ![c].name = n]
    /\ UNCHANGED <<printed, prints, mishaps>>

(* No name is left, or there is no directory.                              *)
CreateWaits(c) ==
    /\ call[c].stage = "asked"
    /\ call[c].data # <<>>
    /\ Mishap
    /\ Reaches(c, "done")
    /\ UNCHANGED <<temp, printed, prints>>

CreateFails(c) ==
    /\ call[c].stage = "asked"
    /\ call[c].data # <<>>
    /\ \/ FreeNames = {} /\ UNCHANGED mishaps
       \/ Mishap
    /\ Reaches(c, "done")
    /\ UNCHANGED <<temp, printed, prints>>

(* write_to_file.  The stream throws no exceptions: when the disk takes    *)
(* only a part, the file is printed all the same.                          *)
Write(c) ==
    /\ call[c].stage = "named"
    /\ \/ /\ temp' = [temp EXCEPT ![call[c].name] = call[c].data]
          /\ UNCHANGED mishaps
       \/ /\ Mishap
          /\ \E k \in 0 .. Len(call[c].data) - 1 :
                temp' = [temp EXCEPT ![call[c].name] = SubSeq(call[c].data, 1, k)]
    /\ Reaches(c, "written")
    /\ UNCHANGED <<printed, prints>>

(* The file cannot be opened for writing: the call is answered with 0, and *)
(* the file getTempPath has created stays.                                 *)
WriteFails(c) ==
    /\ call[c].stage = "named"
    /\ Mishap
    /\ Reaches(c, "done")
    /\ UNCHANGED <<temp, printed, prints>>

(* fpPrintBitmap, fpPrintPDF417: the printer gets the file's content.      *)
PrintFile(c) ==
    /\ call[c].stage = "written"
    /\ printed' = Append(printed, [file |-> call[c].file, asked |-> call[c].data,
                                   data |-> temp[call[c].name]])
    /\ Reaches(c, "printed")
    /\ UNCHANGED <<temp, prints, mishaps>>

(* DeleteFileA.                                                            *)
Undeleted(name) == [m \in DOMAIN temp \cup {name} |-> temp[m]]
Deleted(name) == [m \in DOMAIN temp \ {name} |-> temp[m]]

Delete(c) ==
    /\ call[c].stage = "printed"
    /\ temp' = Deleted(call[c].name)
    /\ Reaches(c, "done")
    /\ UNCHANGED <<printed, prints, mishaps>>

(* Nobody looks at its answer: the file is open elsewhere, say, and stays. *)
DeleteFails(c) ==
    /\ call[c].stage = "printed"
    /\ Mishap
    /\ Reaches(c, "done")
    /\ UNCHANGED <<temp, printed, prints>>

Return(c) ==
    /\ call[c].stage = "done"
    /\ call' = [call EXCEPT ![c] = Idle]
    /\ UNCHANGED <<temp, printed, prints, mishaps>>

(* The server ends in the middle of its calls: they fail, and the files    *)
(* they have made stay.                                                    *)
ServerCrash ==
    /\ Mishap
    /\ call' = [c \in Clients |-> Idle]
    /\ UNCHANGED <<temp, printed, prints>>

-----------------------------------------------------------------------------
Init ==
    /\ temp = [n \in {} |-> <<>>]
    /\ call = [c \in Clients |-> Idle]
    /\ printed = <<>>
    /\ prints = 0
    /\ mishaps = 0

HandlerStep(c) ==
    \/ NothingToPrint(c)
    \/ Create(c)
    \/ CreateFails(c)
    \/ Write(c)
    \/ WriteFails(c)
    \/ PrintFile(c)
    \/ Delete(c)
    \/ DeleteFails(c)

Next ==
    \/ \E c \in Clients : Ask(c)
    \/ \E c \in Clients : HandlerStep(c)
    \/ \E c \in Clients : Return(c)
    \/ ServerCrash

Spec == Init /\ [][Next]_vars

(* The server's threads and the clients go on.                             *)
FairSpec ==
    /\ Spec
    /\ \A c \in Clients : WF_vars(HandlerStep(c)) /\ WF_vars(Return(c))

-----------------------------------------------------------------------------
(* Properties.                                                             *)

Stages == {"idle", "asked", "named", "written", "printed", "done"}

HasFile(k) == k.stage \in {"named", "written", "printed"}

Calls ==
    {k \in [stage : Stages, file : Files \cup {<<>>}, data : Seq(Bytes),
            name : TempNames \cup {NoName}] :
        /\ k.stage # "idle" => k.file \in Files
        /\ HasFile(k) => k.name \in TempNames}

Prints == [file : Files, asked : Seq(Bytes), data : Seq(Bytes)]

(* Every variable has its type; a call which has its file names it.        *)
TypeOK ==
    /\ DOMAIN temp \subseteq TempNames
    /\ \A n \in DOMAIN temp : temp[n] \in Seq(Bytes)
    /\ call \in [Clients -> Calls]
    /\ printed \in Seq(Prints)
    /\ prints \in 0 .. MaxPrints
    /\ mishaps \in 0 .. MaxMishaps

(* "data" are all of what has been asked for, or a beginning of it if not  *)
(* everything has gone well.                                               *)
Own(asked, data, well) ==
    /\ \E k \in 0 .. Len(asked) : data = SubSeq(asked, 1, k)
    /\ well => data = asked

(* What is printed for a call is data that very call has sent: all of      *)
(* them, or the beginning of them after a failure of the disk, but never   *)
(* another client's, although all threads use one directory.               *)
PrintsOwnData ==
    \A i \in DOMAIN printed : Own(printed[i].asked, printed[i].data, mishaps = 0)

(* A temporary file belongs to a call which is not finished, unless a      *)
(* failure has left it behind.                                             *)
NoFileLeftBehind ==
    mishaps = 0 =>
        \A n \in DOMAIN temp :
            \E c \in Clients : HasFile(call[c]) /\ call[c].name = n

(* The inductive invariant behind the two: each call has a file of its     *)
(* own, which is there, and once written holds what the call has sent.     *)
FilesApart ==
    /\ \A c \in Clients : HasFile(call[c]) => call[c].name \in DOMAIN temp
    /\ \A c, d \in Clients :
          HasFile(call[c]) /\ HasFile(call[d]) /\ call[c].name = call[d].name
            => c = d

FilesHoldOwnData ==
    \A c \in Clients :
        call[c].stage = "written" =>
            Own(call[c].data, temp[call[c].name], mishaps = 0)

IInv ==
    /\ TypeOK
    /\ FilesApart
    /\ FilesHoldOwnData
    /\ PrintsOwnData
    /\ NoFileLeftBehind

(* Every call is answered, also when the directory has no name left.       *)
EveryPrintAnswered ==
    \A c \in Clients : call[c].stage # "idle" ~> call[c].stage = "idle"

(* The data of the file the application names are what is printed: the     *)
(* interface declares them as binary, a byte array.                        *)
FilePrintedAsItIs ==
    \A i \in DOMAIN printed : mishaps = 0 => printed[i].data = printed[i].file

=============================================================================
