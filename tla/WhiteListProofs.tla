---------------------------- MODULE WhiteListProofs ----------------------------
(***************************************************************************)
(* Proofs about the white list, for any set of addresses and any file: its *)
(* invariant, that no duplicate row is ever inserted, and that it          *)
(* implements AccessList.                                                  *)
(***************************************************************************)
EXTENDS WhiteList, TLAPS

(* One name per group of actions, to split the proof of a step.            *)
StartUp  == \/ Main \/ Initialize \/ AssertFails \/ CreateTable
            \/ LoadList \/ StartFails \/ TryStart
Commands == \/ InsertOk \/ InsertError \/ Emplace
            \/ DeleteOk \/ DeleteError \/ Erase

(* Every initial state satisfies the inductive invariant.                  *)
LEMMA InitIInv == Init => IInv
  <1> SUFFICES ASSUME Init PROVE IInv
    OBVIOUS
  <1> USE WhiteListAssumption DEF Init
  <1>1. table \in [Address -> Nat]
    OBVIOUS
  <1>2. TypeOK
    BY <1>1 DEF TypeOK, Running, Serving, Editing, Stopped
  <1>3. MemoryMatchesTable /\ AckedDurable
    BY DEF MemoryMatchesTable, AckedDurable
  <1> QED
    BY <1>2, <1>3 DEF IInv, Editing

(* The steps of main() before the server serves preserve the invariant.    *)
LEMMA StartUpIInv == IInv /\ StartUp => IInv'
  <1> SUFFICES ASSUME IInv, StartUp PROVE IInv'
    OBVIOUS
  <1> USE WhiteListAssumption
      DEF IInv, TypeOK, MemoryMatchesTable, AckedDurable, Listed,
          Running, Serving, Editing, Stopped, durable
  <1>1. CASE Main         BY <1>1 DEF Main, Goto
  <1>2. CASE Initialize   BY <1>2 DEF Initialize, Goto
  <1>3. CASE AssertFails  BY <1>3 DEF AssertFails, EndProcess
  <1>4. CASE CreateTable  BY <1>4 DEF CreateTable, Goto
  <1>5. CASE LoadList     BY <1>5 DEF LoadList, LoadRows, Goto
  <1>6. CASE StartFails   BY <1>6 DEF StartFails, EndProcess
  <1>7. CASE TryStart     BY <1>7 DEF TryStart, Goto
  <1> QED
    BY <1>1, <1>2, <1>3, <1>4, <1>5, <1>6, <1>7 DEF StartUp

(* The steps of a command under way preserve the invariant.                *)
LEMMA CommandsIInv == IInv /\ Commands => IInv'
  <1> SUFFICES ASSUME IInv, Commands PROVE IInv'
    OBVIOUS
  <1> USE WhiteListAssumption
      DEF IInv, TypeOK, MemoryMatchesTable, AckedDurable, Listed,
          Running, Serving, Editing, Stopped, durable
  <1>1. CASE InsertOk     BY <1>1 DEF InsertOk
  <1>2. CASE InsertError  BY <1>2 DEF InsertError, Return
  <1>3. CASE Emplace      BY <1>3 DEF Emplace, Return
  <1>4. CASE DeleteOk     BY <1>4 DEF DeleteOk, DeleteRows
  <1>5. CASE DeleteError  BY <1>5 DEF DeleteError, Return
  <1>6. CASE Erase        BY <1>6 DEF Erase, Return
  <1> QED
    BY <1>1, <1>2, <1>3, <1>4, <1>5, <1>6 DEF Commands

(* A lookup answers true or false.                                         *)
LEMMA FoundBoolean == \A a : Found(a) \subseteq BOOLEAN
  <1> TAKE a
  <1>1. IsIpCanConnect(a) \in BOOLEAN
    BY DEF IsIpCanConnect
  <1>2. {IsIpCanConnect(a)} \subseteq BOOLEAN
    BY <1>1
  <1>3. {FALSE} \subseteq BOOLEAN
    OBVIOUS
  <1> QED
    BY <1>2, <1>3 DEF Found

(* Every step preserves the invariant.                                     *)
LEMMA NextIInv == IInv /\ [Next]_vars => IInv'
  <1> SUFFICES ASSUME IInv, [Next]_vars PROVE IInv'
    OBVIOUS
  <1> USE WhiteListAssumption
      DEF IInv, TypeOK, MemoryMatchesTable, AckedDurable, Listed,
          Running, Serving, Editing, Stopped, durable
  <1>1. CASE StartUp   BY <1>1, StartUpIInv
  <1>2. CASE Commands  BY <1>2, CommandsIInv
  <1>3. ASSUME NEW a \in Address, Add(a) PROVE IInv'
    BY <1>3 DEF Add, IsIpCanConnect, Issue
  <1>4. ASSUME NEW a \in Address, Remove(a) PROVE IInv'
    BY <1>4 DEF Remove, IsIpCanConnect, Issue
  <1>5. ASSUME NEW a \in Address, IsClientCanConnect(a) PROVE IInv'
    <2>1. PICK r \in BOOLEAN : answer' = <<a, r>>
      BY <1>5, FoundBoolean DEF IsClientCanConnect
    <2> QED
      BY <1>5, <2>1 DEF IsClientCanConnect
  <1>6. CASE Exit      BY <1>6 DEF Exit, EndProcess
  <1>7. CASE Kill      BY <1>7 DEF Kill, EndProcess
  <1>8. CASE UNCHANGED vars  BY <1>8 DEF vars
  <1> QED
    BY <1>1, <1>2, <1>3, <1>4, <1>5, <1>6, <1>7, <1>8
    DEF Next, StartUp, Commands

(* The inductive invariant holds in every reachable state.                 *)
THEOREM Invariance == Spec => []IInv
  BY InitIInv, NextIInv, PTL DEF Spec

(* The variables keep their types, and an argument is held exactly while a *)
(* command is under way.                                                   *)
THEOREM TypeCorrect == Spec => []TypeOK
  <1>1. IInv => TypeOK  BY DEF IInv
  <1> QED  BY <1>1, Invariance, PTL

(* The map in memory agrees with the table, except for the address that    *)
(* moves, through every sequence of commands, errors, kills and restarts.  *)
THEOREM MemoryAgrees == Spec => []MemoryMatchesTable
  <1>1. IInv => MemoryMatchesTable  BY DEF IInv
  <1> QED  BY <1>1, Invariance, PTL

(* What Add and Remove reported to the operator survives kills.            *)
THEOREM AcksAreDurable == Spec => []AckedDurable
  <1>1. IInv => AckedDurable  BY DEF IInv
  <1> QED  BY <1>1, Invariance, PTL

(* CWhiteList::Add never inserts a second row for an address.              *)
THEOREM NoDuplicates == Spec => NoDuplicateInsert
  <1> DEFINE Grow == \A a \in Address : table'[a] > table[a] => table[a] = 0
  <1>1. IInv /\ [Next]_vars => [Grow]_vars
    <2> SUFFICES ASSUME IInv, Next PROVE Grow
      OBVIOUS
    <2>1. table \in [Address -> Nat]
      BY DEF IInv, TypeOK
    <2>2. CASE UNCHANGED table
      BY <2>1, <2>2
    <2>3. CASE InsertOk
      <3>1. strIp \in Address /\ table[strIp] = 0
        BY <2>1, <2>3, WhiteListAssumption
        DEF InsertOk, IInv, TypeOK, Listed, Editing
      <3> QED
        BY <2>1, <2>3, <3>1 DEF InsertOk
    <2>4. CASE DeleteOk
      BY <2>1, <2>4 DEF DeleteOk, DeleteRows
    <2> QED
      BY <2>2, <2>3, <2>4
      DEF Next, durable, Goto, EndProcess, Issue,
          Main, Initialize, AssertFails, CreateTable, LoadList, StartFails,
          TryStart, Add, Remove, IsClientCanConnect, InsertError, Emplace,
          DeleteError, Erase, Exit, Kill
  <1> QED
    BY <1>1, Invariance, PTL DEF Spec, NoDuplicateInsert
-------------------------------------------------------------------------------
(* An initial state of the white list is one of AccessList.                *)
LEMMA InitMaps == Init => AL!Init
  BY DEF Init, AL!Init, Listed, Serving, Editing

(* A lookup gets an answer that AccessList allows.                         *)
LEMMA FoundAllowed ==
  ASSUME IInv, pc \in Serving, NEW a \in Address
  PROVE  Found(a) \subseteq AL!Answers(a)
  <1>1. CASE pc \in {"emplace", "erase"}
    <2>1. m_acceptList \cup {strIp} = Listed \cup {strIp}
      BY <1>1 DEF IInv, MemoryMatchesTable
    <2> QED
      BY <1>1, <2>1 DEF Found, AL!Answers
  <1>2. CASE pc \notin {"emplace", "erase"}
    <2>1. m_acceptList = Listed
      BY <1>2 DEF IInv, MemoryMatchesTable, Serving, Editing
    <2>2. Found(a) = {IsIpCanConnect(a)}
      BY <1>2 DEF Found
    <2>3. IsIpCanConnect(a) \in BOOLEAN /\ (IsIpCanConnect(a) <=> a \in Listed)
      BY <2>1 DEF IsIpCanConnect
    <2>4. IsIpCanConnect(a) \in AL!Answers(a)
      BY <1>2, <2>3 DEF AL!Answers
    <2> QED
      BY <2>2, <2>4
  <1> QED
    BY <1>1, <1>2

(* Every step of the white list is a step of AccessList or changes nothing *)
(* that AccessList can see.                                                *)
LEMMA StepMaps == IInv /\ IInv' /\ [Next]_vars => [AL!Next]_(AL!vars)
  <1> SUFFICES ASSUME IInv, IInv', [Next]_vars PROVE [AL!Next]_(AL!vars)
    OBVIOUS
  <1> DEFINE Moving == IF pc \in {"emplace", "erase"} THEN {strIp} ELSE {}
  <1> USE WhiteListAssumption
      DEF IInv, TypeOK, Running, Serving, Editing, Stopped, durable
  <1>1. CASE UNCHANGED <<Listed, pc \in Serving, answer, Moving>>
    BY <1>1 DEF AL!vars
  <1>2. CASE TryStart
    <2>1. AL!Start
      BY <1>2 DEF TryStart, Goto, AL!Start, Listed
    <2> QED
      BY <2>1 DEF AL!Next
  <1>3. CASE InsertOk
    <2>1. strIp \in Address /\ strIp \notin Listed
      BY <1>3 DEF InsertOk
    <2>2. Listed' = Listed \cup {strIp}
      BY <1>3, <2>1 DEF InsertOk, Listed
    <2>3. AL!Add(strIp)
      BY <1>3, <2>1, <2>2 DEF InsertOk, AL!Add, AL!Commit
    <2> QED
      BY <2>1, <2>3 DEF AL!Next
  <1>4. CASE DeleteOk
    <2>1. strIp \in Address /\ strIp \in Listed
      BY <1>4 DEF DeleteOk
    <2>2. Listed' = Listed \ {strIp}
      BY <1>4, <2>1 DEF DeleteOk, DeleteRows, Listed
    <2>3. AL!Remove(strIp)
      BY <1>4, <2>1, <2>2 DEF DeleteOk, AL!Remove, AL!Commit
    <2> QED
      BY <2>1, <2>3 DEF AL!Next
  <1>5. CASE Emplace \/ Erase
    <2>1. AL!Settle
      BY <1>5 DEF Emplace, Erase, Return, AL!Settle, Listed
    <2> QED
      BY <2>1 DEF AL!Next
  <1>6. ASSUME NEW a \in Address, IsClientCanConnect(a)
        PROVE  AL!Next
    <2>1. PICK r \in Found(a) : answer' = <<a, r>>
      BY <1>6 DEF IsClientCanConnect
    <2>2. r \in AL!Answers(a)
      BY <1>6, <2>1, FoundAllowed DEF IsClientCanConnect
    <2>3. AL!Lookup(a)
      BY <1>6, <2>1, <2>2 DEF IsClientCanConnect, AL!Lookup, Listed
    <2> QED
      BY <2>3 DEF AL!Next
  <1>7. ASSUME pc \in Serving, EndProcess("down")
        PROVE  AL!Next
    <2>1. AL!Stop
      BY <1>7 DEF EndProcess, AL!Stop, Listed
    <2> QED
      BY <2>1 DEF AL!Next
  <1>8. ASSUME pc \notin Serving, pc' \notin Serving,
               UNCHANGED table, answer' = answer
        PROVE  UNCHANGED <<Listed, pc \in Serving, answer, Moving>>
    BY <1>8 DEF Listed
  <1>9. CASE pc \notin Serving /\ ~TryStart
    <2>1. pc' \notin Serving /\ UNCHANGED <<table, answer>>
      BY <1>9
      DEF Next, vars, Goto, EndProcess, Main, Initialize, AssertFails,
          CreateTable, LoadList, StartFails, Add, Remove, IsClientCanConnect,
          InsertOk, InsertError, Emplace, DeleteOk, DeleteError, Erase, Exit,
          Kill
    <2> QED
      BY <1>1, <1>8, <1>9, <2>1
  <1>10. CASE /\ pc \in Serving
              /\ \/ InsertError \/ DeleteError \/ UNCHANGED vars
                 \/ \E a \in Address : Add(a) \/ Remove(a)
    <2>1. UNCHANGED <<Listed, pc \in Serving, answer, Moving>>
      BY <1>10 DEF InsertError, DeleteError, Return, Add, Remove, Issue, vars,
                   Listed
    <2> QED
      BY <1>1, <2>1
  <1> QED
    BY <1>2, <1>3, <1>4, <1>5, <1>6, <1>7, <1>9, <1>10
    DEF Next, Main, Initialize, AssertFails, CreateTable, LoadList,
        StartFails, Exit, Kill

(* The white list implements AccessList.                                   *)
THEOREM Refinement == Spec => ImplementsAccessList
  BY InitMaps, StepMaps, Invariance, PTL
  DEF Spec, ImplementsAccessList, AL!Spec
===============================================================================
