------------------------------- MODULE WhiteList -------------------------------
(***************************************************************************)
(* The server's white list: CWhiteList (the map m_acceptList in memory and *)
(* the table `whitelist' of the file whitelist.sql), the commands of the   *)
(* server's CActionManager that change it, and the part of main() that     *)
(* opens and loads it.                                                     *)
(*                                                                         *)
(* Two threads: the one at `pc' (main() until the server runs, then the    *)
(* action thread of CServer::Run) and the network thread, which only asks  *)
(* IsClientCanConnect.  m_acceptList has no lock.  SQLite statements may   *)
(* fail and the process may be killed at any point; the table survives.    *)
(* A command that returns false changes nothing and shows the menu again,  *)
(* which is a stuttering step here.                                        *)
(*                                                                         *)
(* Operators marked "Fault" are wrong variants of the one that follows;    *)
(* nothing uses them but tests that the properties can tell them apart.    *)
(***************************************************************************)
EXTENDS Naturals

CONSTANTS
  Address,   \* IP addresses in the textual form SocketAddress::host() gives
  MaxRows,   \* most rows an address has in the file the server is given
  None       \* no argument, no answer

ASSUME WhiteListAssumption == MaxRows \in Nat /\ None \notin Address

VARIABLES
  table,          \* durable: number of rows with each address
  hasTable,       \* durable: the table exists in whitelist.sql
  m_pDatabase,    \* the database handle is not null
  m_acceptList,   \* keys of the map in memory
  pc,             \* where the thread that owns the white list is
  strIp,          \* argument of the Add or Remove that is under way
  answer,         \* last answer of IsClientCanConnect: <<address, result>>
  acked           \* history: what the operator was last told of an address

vars == <<table, hasTable, m_pDatabase, m_acceptList, pc, strIp, answer, acked>>

durable == <<table, hasTable>>

Editing  == {"INSERT", "emplace", "DELETE", "erase"}
Serving  == {"menu"} \cup Editing
Running  == {"Initialize", "CREATE", "SELECT", "TryStart"} \cup Serving
Stopped  == {"down", "aborted"}

(* The addresses with a row: what SELECT Address FROM whitelist returns.   *)
Listed == {a \in Address : table[a] > 0}

Init ==
  /\ hasTable \in BOOLEAN
  /\ table \in [Address -> 0 .. MaxRows]
  /\ ~hasTable => \A a \in Address : table[a] = 0
  /\ m_pDatabase = FALSE
  /\ m_acceptList = {}
  /\ pc = "down"
  /\ strIp = None
  /\ answer = None
  /\ acked = [a \in Address |-> "none"]
-------------------------------------------------------------------------------
(* Start up: main().                                                       *)

EndProcess(how) ==
  /\ pc' = how
  /\ m_pDatabase' = FALSE
  /\ m_acceptList' = {}
  /\ strIp' = None
  /\ answer' = None
  /\ UNCHANGED <<table, acked>>

Goto(label) ==
  /\ pc' = label
  /\ UNCHANGED <<strIp, answer, acked>>

Main ==
  /\ pc \in Stopped
  /\ Goto("Initialize")
  /\ UNCHANGED <<durable, m_pDatabase, m_acceptList>>

(* main() ignores the result of Initialize.                                *)
Initialize ==
  /\ pc = "Initialize"
  /\ m_pDatabase' \in BOOLEAN
  /\ Goto("CREATE")
  /\ UNCHANGED <<durable, m_acceptList>>

(* TryGetList begins with assert(m_pDatabase).                             *)
AssertFails ==
  /\ pc = "CREATE"
  /\ ~m_pDatabase
  /\ EndProcess("aborted")
  /\ UNCHANGED hasTable

CreateTable ==
  /\ pc = "CREATE"
  /\ m_pDatabase
  /\ hasTable' = TRUE
  /\ Goto("SELECT")
  /\ UNCHANGED <<table, m_pDatabase, m_acceptList>>

(* Fault: the rows are not put in the map.                                *)
LoadNothing == m_acceptList

(* What OnWhiteListLoad has put in the map when every row has been seen.   *)
LoadRows == m_acceptList \cup Listed

LoadList ==
  /\ pc = "SELECT"
  /\ m_acceptList' = LoadRows
  /\ Goto("TryStart")
  /\ UNCHANGED <<durable, m_pDatabase>>

(* TryGetList or CServer::TryStart failed: main() deletes the white list   *)
(* and returns.                                                            *)
StartFails ==
  /\ \/ pc = "CREATE" /\ m_pDatabase
     \/ pc \in {"SELECT", "TryStart"}
  /\ EndProcess("down")
  /\ UNCHANGED hasTable

(* CServer::TryStart succeeded and Run started both threads.               *)
TryStart ==
  /\ pc = "TryStart"
  /\ Goto("menu")
  /\ UNCHANGED <<durable, m_pDatabase, m_acceptList>>
-------------------------------------------------------------------------------
(* The commands of the menu.                                               *)

(* Fault: the map is not consulted.                                       *)
IsIpCanConnectNever(a) == FALSE

IsIpCanConnect(a) == a \in m_acceptList

Issue(a, label) ==
  /\ pc' = label
  /\ strIp' = a
  /\ acked' = [acked EXCEPT ![a] = "none"]
  /\ UNCHANGED <<durable, m_pDatabase, m_acceptList, answer>>

Return(told) ==
  /\ pc' = "menu"
  /\ strIp' = None
  /\ acked' = [acked EXCEPT ![strIp] = told]

Add(a) ==
  /\ pc = "menu"
  /\ ~IsIpCanConnect(a)
  /\ Issue(a, "INSERT")

InsertOk ==
  /\ pc = "INSERT"
  /\ table' = [table EXCEPT ![strIp] = @ + 1]
  /\ pc' = "emplace"
  /\ UNCHANGED <<hasTable, m_pDatabase, m_acceptList, strIp, answer, acked>>

(* Fault: the result of INSERT is not checked.                            *)
InsertErrorIgnored ==
  /\ pc = "INSERT"
  /\ pc' = "emplace"
  /\ UNCHANGED <<durable, m_pDatabase, m_acceptList, strIp, answer, acked>>

InsertError ==
  /\ pc = "INSERT"
  /\ Return("none")
  /\ UNCHANGED <<durable, m_pDatabase, m_acceptList, answer>>

Emplace ==
  /\ pc = "emplace"
  /\ m_acceptList' = m_acceptList \cup {strIp}
  /\ Return("in")
  /\ UNCHANGED <<durable, m_pDatabase, answer>>

Remove(a) ==
  /\ pc = "menu"
  /\ IsIpCanConnect(a)
  /\ Issue(a, "DELETE")

DeleteRows == [table EXCEPT ![strIp] = 0]

DeleteOk ==
  /\ pc = "DELETE"
  /\ table' = DeleteRows
  /\ pc' = "erase"
  /\ UNCHANGED <<hasTable, m_pDatabase, m_acceptList, strIp, answer, acked>>

(* Fault: the map entry goes although DELETE failed.                      *)
DeleteErrorErases ==
  /\ pc = "DELETE"
  /\ m_acceptList' = m_acceptList \ {strIp}
  /\ Return("none")
  /\ UNCHANGED <<durable, m_pDatabase, answer>>

DeleteError ==
  /\ pc = "DELETE"
  /\ Return("none")
  /\ UNCHANGED <<durable, m_pDatabase, m_acceptList, answer>>

Erase ==
  /\ pc = "erase"
  /\ m_acceptList' = m_acceptList \ {strIp}
  /\ Return("out")
  /\ UNCHANGED <<durable, m_pDatabase, answer>>

(* Command 3: exit(0).                                                     *)
Exit ==
  /\ pc = "menu"
  /\ EndProcess("down")
  /\ UNCHANGED hasTable

Kill ==
  /\ pc \in Running
  /\ EndProcess("down")
  /\ UNCHANGED hasTable
-------------------------------------------------------------------------------
(* The network thread's lookup.  While emplace or erase runs in the action *)
(* thread, find() walks a map that is being relinked or rehashed: it may   *)
(* miss any key that is there, and may or may not see the key that moves.  *)

Found(a) ==
  IF pc \in {"emplace", "erase"}
  THEN IF a \in m_acceptList \cup {strIp} THEN BOOLEAN ELSE {FALSE}
  ELSE {IsIpCanConnect(a)}

IsClientCanConnect(a) ==
  /\ pc \in Serving
  /\ \E r \in Found(a) : answer' = <<a, r>>
  /\ UNCHANGED <<durable, m_pDatabase, m_acceptList, pc, strIp, acked>>

Next ==
  \/ Main \/ Initialize \/ AssertFails \/ CreateTable \/ LoadList
  \/ StartFails \/ TryStart
  \/ \E a \in Address : Add(a) \/ Remove(a) \/ IsClientCanConnect(a)
  \/ InsertOk \/ InsertError \/ Emplace
  \/ DeleteOk \/ DeleteError \/ Erase
  \/ Exit \/ Kill

Spec == Init /\ [][Next]_vars
-------------------------------------------------------------------------------
(* The types of the variables.  An argument is held exactly while an Add   *)
(* or Remove is under way.                                                 *)
TypeOK ==
  /\ table \in [Address -> Nat]
  /\ hasTable \in BOOLEAN
  /\ m_pDatabase \in BOOLEAN
  /\ m_acceptList \in SUBSET Address
  /\ pc \in Running \cup Stopped
  /\ strIp \in Address \cup {None}
  /\ pc \in Editing <=> strIp # None
  /\ answer \in (Address \X BOOLEAN) \cup {None}
  /\ acked \in [Address -> {"none", "in", "out"}]

(* Whenever the server serves, the map in memory and the table agree on    *)
(* every address, except the one whose row has just been inserted or       *)
(* deleted and whose map entry is about to follow (CWhiteList::Add,        *)
(* Remove and TryGetList, over any sequence of commands, SQLite errors,    *)
(* kills and restarts).                                                    *)
MemoryMatchesTable ==
  /\ pc \in {"TryStart", "menu", "INSERT", "DELETE"} => m_acceptList = Listed
  /\ pc = "emplace" => m_acceptList = Listed \ {strIp}
  /\ pc = "erase"   => m_acceptList = Listed \cup {strIp}

(* What Add and Remove told the operator is durable: an address whose last *)
(* command was an Add that returned true has a row, one whose last command *)
(* was a Remove that returned true has none, even after kills and          *)
(* restarts.                                                               *)
AckedDurable ==
  \A a \in Address :
    /\ acked[a] = "in"  => a \in Listed
    /\ acked[a] = "out" => a \notin Listed

(* The table has no UNIQUE constraint on Address: only the look-up in      *)
(* memory keeps CWhiteList::Add from inserting a second row.  It never     *)
(* inserts a row for an address that has one, whatever the file held.      *)
NoDuplicateInsert ==
  [][\A a \in Address : table'[a] > table[a] => table[a] = 0]_vars

(* assert(m_pDatabase) at the start of CWhiteList::TryGetList.             *)
DatabaseAsserted == pc = "CREATE" => m_pDatabase

(* The strengthening of MemoryMatchesTable and AckedDurable that is        *)
(* inductive: which command was issued tells what the map holds.           *)
IInv ==
  /\ TypeOK
  /\ MemoryMatchesTable
  /\ AckedDurable
  /\ pc \in Stopped \cup {"Initialize", "CREATE", "SELECT"} => m_acceptList = {}
  /\ pc \notin Serving => answer = None
  /\ pc = "INSERT"  => strIp \notin Listed
  /\ pc = "DELETE"  => strIp \in Listed
  /\ pc = "emplace" => strIp \in Listed
  /\ pc = "erase"   => strIp \notin Listed
  /\ pc \in Editing => acked[strIp] = "none"
-------------------------------------------------------------------------------
(* The white list implements AccessList: the durable list is the set of    *)
(* addresses with a row, and the address between its SQL statement and its *)
(* map entry is unsettled.                                                 *)
AL == INSTANCE AccessList WITH
        listed    <- Listed,
        unsettled <- IF pc \in {"emplace", "erase"} THEN {strIp} ELSE {},
        up        <- pc \in Serving

(* Every lookup the network thread makes gets an answer the abstract list  *)
(* allows: nobody without a row is admitted, nobody with a row is refused  *)
(* unless a change is under way.                                           *)
ImplementsAccessList == AL!Spec
===============================================================================
