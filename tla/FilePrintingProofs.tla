------------------------- MODULE FilePrintingProofs -------------------------
(***************************************************************************)
(* Proofs about FilePrinting: for every set of clients, of temporary names *)
(* and of files, and every bound, a call prints its own data, and without  *)
(* a failure no temporary file is left behind.                             *)
(***************************************************************************)
EXTENDS FilePrinting, SequenceTheorems, TLAPS

LEMMA InitInv == Init => IInv
<1> SUFFICES ASSUME Init PROVE IInv
  OBVIOUS
<1>1. Idle \in Calls
  BY ConstantsAssumption, EmptySeq DEF Calls, Idle, Stages, HasFile
<1>2. TypeOK
  BY <1>1, ConstantsAssumption, EmptySeq DEF Init, TypeOK
<1>3. FilesApart /\ FilesHoldOwnData /\ PrintsOwnData /\ NoFileLeftBehind
  BY DEF Init, FilesApart, FilesHoldOwnData, PrintsOwnData, NoFileLeftBehind,
         HasFile, Idle
<1> QED
  BY <1>2, <1>3 DEF IInv

-----------------------------------------------------------------------------
(* One client's call becomes k.                                            *)
Becomes(c, k) == k \in Calls /\ call' = [call EXCEPT ![c] = k]

(* A failure only weakens what is claimed of the data.                     *)
MishapOrNot == UNCHANGED mishaps \/ Mishap

LEMMA StillOwn ==
    ASSUME TypeOK, MishapOrNot, NEW a, NEW d, Own(a, d, mishaps = 0)
    PROVE  Own(a, d, mishaps' = 0)
  BY DEF Own, MishapOrNot, Mishap, TypeOK

(* A step which touches no file and prints nothing, after which the call   *)
(* is no nearer to being printed.                                          *)
LEMMA QuietStep ==
    ASSUME IInv, NEW c \in Clients, NEW k, Becomes(c, k),
           UNCHANGED <<temp, printed>>, prints' \in 0 .. MaxPrints, MishapOrNot,
           k.stage \in {"idle", "asked", "done"},
           HasFile(call[c]) => Mishap
    PROVE  IInv'
<1> USE DEF IInv, Becomes
<1>1. TypeOK'
  BY ConstantsAssumption DEF TypeOK, MishapOrNot, Mishap
<1>2. ~HasFile(call'[c]) /\ \A d \in Clients : d # c => call'[d] = call[d]
  BY DEF HasFile, TypeOK
<1>3. FilesApart'
  BY <1>2 DEF FilesApart
<1>4. FilesHoldOwnData'
  BY <1>2, StillOwn DEF FilesHoldOwnData, HasFile
<1>5. PrintsOwnData'
  BY StillOwn DEF PrintsOwnData
<1>6. NoFileLeftBehind'
  <2> SUFFICES ASSUME mishaps' = 0, NEW n \in DOMAIN temp
               PROVE  \E d \in Clients : HasFile(call'[d]) /\ call'[d].name = n
    BY DEF NoFileLeftBehind
  <2>1. mishaps = 0 /\ ~HasFile(call[c])
    BY DEF MishapOrNot, Mishap, TypeOK
  <2>2. PICK d \in Clients : HasFile(call[d]) /\ call[d].name = n
    BY <2>1 DEF NoFileLeftBehind
  <2> QED
    BY <1>2, <2>1, <2>2
<1> QED
  BY <1>1, <1>3, <1>4, <1>5, <1>6

LEMMA AskStep ==
    ASSUME IInv, NEW c \in Clients, Ask(c)
    PROVE  IInv'
<1>1. PICK f \in Files :
         call' = [call EXCEPT ![c] = [Idle EXCEPT !.stage = "asked", !.file = f,
                                                  !.data = TextRead(f)]]
  BY DEF Ask
<1> DEFINE k == [Idle EXCEPT !.stage = "asked", !.file = f, !.data = TextRead(f)]
<1>2. k \in Calls /\ k.stage = "asked"
  BY TextReadAssumption, ConstantsAssumption DEF Calls, Idle, Stages, HasFile
<1>3. Becomes(c, k)
  BY <1>1, <1>2 DEF Becomes
<1>4. prints' \in 0 .. MaxPrints
  BY ConstantsAssumption DEF Ask, IInv, TypeOK
<1>5. ~HasFile(call[c])
  BY DEF Ask, Idle, HasFile
<1> HIDE DEF k
<1> QED
  BY <1>2, <1>3, <1>4, <1>5, QuietStep DEF Ask, MishapOrNot

(* NothingToPrint, the three failures and Return: the call reaches         *)
(* another stage, and the files stay.                                      *)
LEMMA AnswerStep ==
    ASSUME IInv, NEW c \in Clients,
           \/ NothingToPrint(c) \/ CreateFails(c) \/ WriteFails(c)
           \/ DeleteFails(c) \/ Return(c)
    PROVE  IInv'
<1>1. PICK k : /\ call' = [call EXCEPT ![c] = k]
               /\ k = Idle \/ (call[c].stage # "idle" /\ k = [call[c] EXCEPT !.stage = "done"])
  BY DEF NothingToPrint, CreateFails, WriteFails, DeleteFails, Return, Reaches, IInv, TypeOK
<1>2. k \in Calls /\ k.stage \in {"idle", "done"}
  <2>1. Idle \in Calls /\ Idle.stage = "idle"
    BY ConstantsAssumption, EmptySeq DEF Calls, Idle, Stages, HasFile
  <2>2. call[c] \in Calls
    BY DEF IInv, TypeOK
  <2>3. ASSUME call[c].stage # "idle"
        PROVE  [call[c] EXCEPT !.stage = "done"] \in Calls
    BY <2>2, <2>3 DEF Calls, Stages, HasFile
  <2>4. [call[c] EXCEPT !.stage = "done"].stage = "done"
    BY <2>2 DEF Calls
  <2> QED
    BY <1>1, <2>1, <2>3, <2>4
<1>3. /\ UNCHANGED <<temp, printed, prints>>
      /\ MishapOrNot
      /\ HasFile(call[c]) => Mishap
  BY DEF NothingToPrint, CreateFails, WriteFails, DeleteFails, Return, HasFile, MishapOrNot
<1>4. prints' \in 0 .. MaxPrints
  BY <1>3 DEF IInv, TypeOK
<1> QED
  BY <1>1, <1>2, <1>3, <1>4, QuietStep DEF Becomes

-----------------------------------------------------------------------------
(* The call of c moves on with its file; the others see none of it.        *)
LEMMA MovesOn ==
    ASSUME TypeOK, NEW c \in Clients, NEW s \in Stages, Reaches(c, s),
           call[c].stage # "idle", HasFile(call[c])
    PROVE  /\ call' \in [Clients -> Calls]
           /\ call'[c] = [call[c] EXCEPT !.stage = s]
           /\ call'[c].stage = s
           /\ call'[c].name = call[c].name /\ call'[c].data = call[c].data
           /\ \A d \in Clients : d # c => call'[d] = call[d]
<1>1. call[c] \in Calls
  BY DEF TypeOK
<1>2. [call[c] EXCEPT !.stage = s] \in Calls
  BY <1>1 DEF Calls, HasFile
<1>3. call' = [call EXCEPT ![c] = [call[c] EXCEPT !.stage = s]]
  BY DEF Reaches, TypeOK
<1>4. /\ [call[c] EXCEPT !.stage = s].stage = s
      /\ [call[c] EXCEPT !.stage = s].name = call[c].name
      /\ [call[c] EXCEPT !.stage = s].data = call[c].data
  BY <1>1 DEF Calls
<1> QED
  BY <1>2, <1>3, <1>4 DEF TypeOK

LEMMA CreateStep ==
    ASSUME IInv, NEW c \in Clients, Create(c)
    PROVE  IInv'
<1> USE DEF IInv
<1>1. PICK n \in FreeNames :
         /\ temp' = [m \in DOMAIN temp \cup {n} |-> IF m = n THEN <<>> ELSE temp[m]]
         /\ call' = [call EXCEPT ![c].stage = "named", ![c].name = n]
  BY DEF Create
<1> DEFINE k == [call[c] EXCEPT !.stage = "named", !.name = n]
<1>2. call[c] \in Calls /\ call[c].stage = "asked" /\ n \in TempNames
  BY <1>1 DEF TypeOK, Create, FreeNames
<1>3. k \in Calls /\ k.stage = "named" /\ k.name = n /\ HasFile(k)
  BY <1>2 DEF Calls, Stages, HasFile
<1>4. call' = [call EXCEPT ![c] = k]
  BY <1>1 DEF TypeOK
<1> HIDE DEF k
<1>5. call'[c] = k /\ \A d \in Clients : d # c => call'[d] = call[d]
  BY <1>4 DEF TypeOK
<1>6. /\ DOMAIN temp' = DOMAIN temp \cup {n}
      /\ temp'[n] = <<>>
      /\ \A m \in DOMAIN temp : temp'[m] = temp[m]
      /\ n \notin DOMAIN temp
  BY <1>1 DEF FreeNames
<1>7. TypeOK'
  BY ZenonT(60), <1>2, <1>3, <1>4, <1>6, EmptySeq DEF TypeOK, Create
<1>8. FilesApart'
  BY <1>3, <1>5, <1>6 DEF FilesApart
<1>9. FilesHoldOwnData'
  <2> SUFFICES ASSUME NEW d \in Clients, call'[d].stage = "written"
               PROVE  Own(call'[d].data, temp'[call'[d].name], mishaps' = 0)
    BY DEF FilesHoldOwnData
  <2>1. call'[d] = call[d]
    BY <1>3, <1>5
  <2>2. call[d].name \in DOMAIN temp
    BY <2>1 DEF FilesApart, HasFile
  <2> QED
    BY <1>6, <2>1, <2>2 DEF FilesHoldOwnData, Create
<1>10. PrintsOwnData'
  BY DEF PrintsOwnData, Create
<1>11. NoFileLeftBehind'
  <2> SUFFICES ASSUME mishaps = 0, NEW m \in DOMAIN temp'
               PROVE  \E d \in Clients : HasFile(call'[d]) /\ call'[d].name = m
    BY DEF NoFileLeftBehind, Create
  <2>1. CASE m = n
    BY <1>3, <1>5, <2>1
  <2>2. CASE m # n
    <3>1. PICK d \in Clients : HasFile(call[d]) /\ call[d].name = m
      BY <1>6, <2>2 DEF NoFileLeftBehind
    <3>2. d # c
      BY <1>2, <3>1 DEF HasFile
    <3> QED
      BY <1>5, <3>1, <3>2
  <2> QED
    BY <2>1, <2>2
<1> QED
  BY <1>7, <1>8, <1>9, <1>10, <1>11

LEMMA WriteStep ==
    ASSUME IInv, NEW c \in Clients, Write(c)
    PROVE  IInv'
<1> USE DEF IInv
<1>1. call[c] \in Calls /\ HasFile(call[c]) /\ call[c].name \in DOMAIN temp
  BY DEF Write, TypeOK, FilesApart, HasFile
<1>2. PICK f : /\ temp' = [temp EXCEPT ![call[c].name] = f]
               /\ f \in Seq(Bytes)
               /\ Own(call[c].data, f, mishaps' = 0)
               /\ MishapOrNot
  <2>1. call[c].data \in Seq(Bytes)
    BY <1>1 DEF Calls
  <2>2. CASE /\ temp' = [temp EXCEPT ![call[c].name] = call[c].data]
             /\ UNCHANGED mishaps
    <3>1. call[c].data = SubSeq(call[c].data, 1, Len(call[c].data))
      BY <2>1
    <3>2. Len(call[c].data) \in 0 .. Len(call[c].data)
      BY <2>1, LenProperties
    <3>3. Own(call[c].data, call[c].data, mishaps' = 0)
      BY <3>1, <3>2 DEF Own
    <3> QED
      BY <2>1, <2>2, <3>3 DEF MishapOrNot
  <2>3. CASE /\ Mishap
             /\ \E k \in 0 .. Len(call[c].data) - 1 :
                   temp' = [temp EXCEPT ![call[c].name] = SubSeq(call[c].data, 1, k)]
    <3>1. PICK k \in 0 .. Len(call[c].data) - 1 :
             temp' = [temp EXCEPT ![call[c].name] = SubSeq(call[c].data, 1, k)]
      BY <2>3
    <3>2. SubSeq(call[c].data, 1, k) \in Seq(Bytes)
      BY <2>1, SubSeqProperties, LenProperties
    <3>3. mishaps' # 0
      BY <2>3 DEF Mishap, TypeOK
    <3>4. k \in 0 .. Len(call[c].data)
      BY <2>1, LenProperties
    <3>5. Own(call[c].data, SubSeq(call[c].data, 1, k), mishaps' = 0)
      BY <3>3, <3>4 DEF Own
    <3> QED
      BY <2>3, <3>1, <3>2, <3>5 DEF MishapOrNot
  <2> QED
    BY <2>2, <2>3 DEF Write
<1>3. /\ call' \in [Clients -> Calls]
      /\ call'[c].stage = "written" /\ call'[c].name = call[c].name
      /\ call'[c].data = call[c].data
      /\ \A d \in Clients : d # c => call'[d] = call[d]
  BY <1>1, MovesOn DEF Write, Stages
<1>4. /\ DOMAIN temp' = DOMAIN temp
      /\ temp'[call[c].name] = f
      /\ \A m \in DOMAIN temp : m # call[c].name => temp'[m] = temp[m]
  BY <1>1, <1>2
<1>5. TypeOK'
  BY <1>2, <1>3, <1>4, ConstantsAssumption DEF TypeOK, Write, MishapOrNot, Mishap
<1>6. FilesApart'
  BY <1>1, <1>3, <1>4 DEF FilesApart, HasFile
<1>7. FilesHoldOwnData'
  <2> SUFFICES ASSUME NEW d \in Clients, call'[d].stage = "written"
               PROVE  Own(call'[d].data, temp'[call'[d].name], mishaps' = 0)
    BY DEF FilesHoldOwnData
  <2>1. CASE d = c
    BY <1>2, <1>3, <1>4, <2>1
  <2>2. CASE d # c
    <3>1. call'[d] = call[d] /\ HasFile(call[d]) /\ call[d].name # call[c].name
      BY <1>1, <1>3, <2>2 DEF FilesApart, HasFile
    <3>2. call[d].name \in DOMAIN temp
      BY <3>1 DEF FilesApart
    <3> QED
      BY <1>2, <1>4, <3>1, <3>2, StillOwn DEF FilesHoldOwnData
  <2> QED
    BY <2>1, <2>2
<1>8. PrintsOwnData'
  BY <1>2, StillOwn DEF PrintsOwnData, Write
<1>9. NoFileLeftBehind'
  <2> SUFFICES ASSUME mishaps' = 0, NEW n \in DOMAIN temp
               PROVE  \E d \in Clients : HasFile(call'[d]) /\ call'[d].name = n
    BY <1>4 DEF NoFileLeftBehind
  <2>1. mishaps = 0
    BY <1>2 DEF MishapOrNot, Mishap, TypeOK
  <2>2. PICK d \in Clients : HasFile(call[d]) /\ call[d].name = n
    BY <2>1 DEF NoFileLeftBehind
  <2>3. HasFile(call'[c]) /\ call'[c].name = call[c].name
    BY <1>3 DEF HasFile
  <2> QED
    BY <1>3, <2>2, <2>3
<1> QED
  BY <1>5, <1>6, <1>7, <1>8, <1>9

LEMMA PrintStep ==
    ASSUME IInv, NEW c \in Clients, PrintFile(c)
    PROVE  IInv'
<1> USE DEF IInv
<1>1. call[c] \in Calls /\ HasFile(call[c]) /\ call[c].name \in DOMAIN temp
  BY DEF PrintFile, TypeOK, FilesApart, HasFile
<1>2. /\ call' \in [Clients -> Calls]
      /\ call'[c].stage = "printed" /\ call'[c].name = call[c].name
      /\ \A d \in Clients : d # c => call'[d] = call[d]
  BY <1>1, MovesOn DEF PrintFile, Stages
<1> DEFINE p == [file |-> call[c].file, asked |-> call[c].data,
                 data |-> temp[call[c].name]]
<1>3. p \in Prints /\ Own(p.asked, p.data, mishaps = 0)
  BY <1>1 DEF Prints, PrintFile, FilesHoldOwnData, Calls, TypeOK
<1>4. printed' = Append(printed, p)
  BY DEF PrintFile
<1> HIDE DEF p
<1>5. TypeOK'
  BY <1>2, <1>3, <1>4, AppendProperties DEF TypeOK, PrintFile
<1>6. FilesApart'
  BY <1>1, <1>2 DEF FilesApart, PrintFile, HasFile
<1>7. FilesHoldOwnData'
  BY <1>2 DEF FilesHoldOwnData, PrintFile
<1>8. PrintsOwnData'
  <2> SUFFICES ASSUME NEW i \in DOMAIN printed'
               PROVE  Own(printed'[i].asked, printed'[i].data, mishaps = 0)
    BY DEF PrintsOwnData, PrintFile
  <2>1. printed \in Seq(Prints)
    BY DEF TypeOK
  <2>2. \/ i \in DOMAIN printed /\ printed'[i] = printed[i]
        \/ printed'[i] = p
    BY <1>3, <1>4, <2>1, AppendProperties, LenProperties
  <2> QED
    BY <1>3, <2>2 DEF PrintsOwnData
<1>9. NoFileLeftBehind'
  <2> SUFFICES ASSUME mishaps = 0, NEW n \in DOMAIN temp
               PROVE  \E d \in Clients : HasFile(call'[d]) /\ call'[d].name = n
    BY DEF NoFileLeftBehind, PrintFile
  <2>1. PICK d \in Clients : HasFile(call[d]) /\ call[d].name = n
    BY DEF NoFileLeftBehind
  <2>2. HasFile(call'[c]) /\ call'[c].name = call[c].name
    BY <1>2 DEF HasFile
  <2> QED
    BY <1>2, <2>1, <2>2
<1> QED
  BY <1>5, <1>6, <1>7, <1>8, <1>9

LEMMA DeleteStep ==
    ASSUME IInv, NEW c \in Clients, Delete(c)
    PROVE  IInv'
<1> USE DEF IInv
<1>1. call[c] \in Calls /\ HasFile(call[c]) /\ call[c].name \in DOMAIN temp
  BY DEF Delete, TypeOK, FilesApart, HasFile
<1>2. /\ call' \in [Clients -> Calls]
      /\ call'[c].stage = "done"
      /\ \A d \in Clients : d # c => call'[d] = call[d]
  BY <1>1, MovesOn DEF Delete, Stages
<1>3. /\ DOMAIN temp' = DOMAIN temp \ {call[c].name}
      /\ \A n \in DOMAIN temp' : temp'[n] = temp[n]
  BY DEF Delete, Deleted
<1>4. \A d \in Clients : HasFile(call'[d]) =>
         call'[d] = call[d] /\ d # c /\ call[d].name # call[c].name
  BY <1>1, <1>2 DEF FilesApart, HasFile
<1>5. TypeOK'
  BY <1>2, <1>3 DEF TypeOK, Delete
<1>6. FilesApart'
  BY <1>3, <1>4 DEF FilesApart
<1>7. FilesHoldOwnData'
  <2> SUFFICES ASSUME NEW d \in Clients, call'[d].stage = "written"
               PROVE  Own(call'[d].data, temp'[call'[d].name], mishaps' = 0)
    BY DEF FilesHoldOwnData
  <2>1. call'[d] = call[d] /\ call[d].name \in DOMAIN temp'
    BY <1>3, <1>4 DEF FilesApart, HasFile
  <2> QED
    BY <1>3, <2>1 DEF FilesHoldOwnData, Delete
<1>8. PrintsOwnData'
  BY DEF PrintsOwnData, Delete
<1>9. NoFileLeftBehind'
  <2> SUFFICES ASSUME mishaps = 0, NEW n \in DOMAIN temp'
               PROVE  \E d \in Clients : HasFile(call'[d]) /\ call'[d].name = n
    BY DEF NoFileLeftBehind, Delete
  <2>1. PICK d \in Clients : HasFile(call[d]) /\ call[d].name = n
    BY <1>3 DEF NoFileLeftBehind
  <2>2. d # c
    BY <1>3, <2>1
  <2> QED
    BY <1>2, <2>1, <2>2
<1> QED
  BY <1>5, <1>6, <1>7, <1>8, <1>9

LEMMA CrashStep ==
    ASSUME IInv, ServerCrash
    PROVE  IInv'
<1> USE DEF IInv, ServerCrash
<1>1. Idle \in Calls /\ ~HasFile(Idle) /\ Idle.stage = "idle"
  BY ConstantsAssumption, EmptySeq DEF Calls, Idle, Stages, HasFile
<1>2. TypeOK'
  BY <1>1, ConstantsAssumption DEF TypeOK, Mishap
<1>3. FilesApart' /\ FilesHoldOwnData'
  BY <1>1 DEF FilesApart, FilesHoldOwnData
<1>4. PrintsOwnData'
  BY StillOwn DEF PrintsOwnData, MishapOrNot
<1>5. NoFileLeftBehind'
  BY DEF NoFileLeftBehind, Mishap, TypeOK
<1> QED
  BY <1>2, <1>3, <1>4, <1>5

-----------------------------------------------------------------------------
(* IInv holds in every reachable state: each call has a temporary file of  *)
(* its own, which holds its data from the time it is written.              *)
THEOREM FilesOwned == Spec => []IInv
<1>1. IInv /\ [Next]_vars => IInv'
  <2> SUFFICES ASSUME IInv, [Next]_vars PROVE IInv'
    OBVIOUS
  <2>1. ASSUME NEW c \in Clients, Ask(c) PROVE IInv'
    BY <2>1, AskStep
  <2>2. ASSUME NEW c \in Clients, HandlerStep(c) PROVE IInv'
    BY <2>2, AnswerStep, CreateStep, WriteStep, PrintStep, DeleteStep
       DEF HandlerStep
  <2>3. ASSUME NEW c \in Clients, Return(c) PROVE IInv'
    BY <2>3, AnswerStep
  <2>4. CASE ServerCrash
    BY <2>4, CrashStep
  <2>5. CASE UNCHANGED vars
    BY <2>5 DEF vars, IInv, TypeOK, FilesApart, FilesHoldOwnData, PrintsOwnData,
                NoFileLeftBehind
  <2> QED
    BY <2>1, <2>2, <2>3, <2>4, <2>5 DEF Next
<1> QED
  BY InitInv, <1>1, PTL DEF Spec

(* What the printer prints for a call is data of that call: the printing   *)
(* calls of all clients, which share the server's temporary directory,     *)
(* never mix.                                                              *)
THEOREM OwnDataPrinted == Spec => []PrintsOwnData
<1>1. IInv => PrintsOwnData
  BY DEF IInv
<1> QED
  BY FilesOwned, <1>1, PTL

(* Without a failure every temporary file is somebody's and will be        *)
(* deleted by its call.                                                    *)
THEOREM NothingLeftBehind == Spec => []NoFileLeftBehind
<1>1. IInv => NoFileLeftBehind
  BY DEF IInv
<1> QED
  BY FilesOwned, <1>1, PTL

=============================================================================
