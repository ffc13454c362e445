-------------------------------- MODULE Options --------------------------------
(***************************************************************************)
(* The client's command line: COption::ParseOptions and what main() then   *)
(* connects to.                                                            *)
(*                                                                         *)
(* Operators marked "Fault" are wrong variants of the one that follows,    *)
(* used only by tests of the properties.                                   *)
(***************************************************************************)
EXTENDS Integers, Sequences

CONSTANTS
  Address,     \* the first arguments that users give
  Port         \* the second ones: sequences of characters

INT_MAX == 2147483647
DEFAULT_SERVER_PORT == 28220

Digit == 0 .. 9      \* the characters that isdigit() knows

ASSUME OptionsAssumption == Port \subseteq Seq(Nat)

VARIABLES
  argv,             \* the arguments behind the program's name
  pc,               \* "start", "refused" or "connecting"
  szServerAddress,  \* m_szServerAddress
  iServerPort       \* m_iServerPort

vars == <<argv, pc, szServerAddress, iServerPort>>

(* The Windows library reads digit after digit and stops at the largest    *)
(* int.                                                                    *)
Step(n, d) == IF n > (INT_MAX - d) \div 10 THEN INT_MAX ELSE 10 * n + d

atoi(s) ==
  LET value[k \in 0 .. Len(s)] == IF k = 0 THEN 0 ELSE Step(value[k - 1], s[k])
  IN  value[Len(s)]

Init ==
  /\ argv \in {<<>>} \cup {<<a>> : a \in Address} \cup {<<a, p>> : a \in Address, p \in Port}
  /\ pc = "start"
  /\ szServerAddress = "null"
  /\ iServerPort = DEFAULT_SERVER_PORT

(* Fault: no upper bound.                                                  *)
InvalidPortPositive(s) == (\E i \in DOMAIN s : s[i] \notin Digit) \/ atoi(s) <= 0

InvalidPort(s) ==
  \/ \E i \in DOMAIN s : s[i] \notin Digit
  \/ atoi(s) <= 0 \/ atoi(s) > 65535

ParseOptions ==
  /\ pc = "start"
  /\ IF argv = <<>> \/ (Len(argv) = 2 /\ InvalidPort(argv[2]))
     THEN pc' = "refused" /\ UNCHANGED szServerAddress
     ELSE pc' = "connecting" /\ szServerAddress' = argv[1]
  /\ UNCHANGED <<argv, iServerPort>>

Spec == Init /\ [][ParseOptions]_vars
-------------------------------------------------------------------------------
(* What a port is, digit by digit: a number from 1 to 65535, however many  *)
(* zeros stand before it.                                                  *)
IsPort(s) ==
  /\ \A i \in DOMAIN s : s[i] \in Digit
  /\ \E i \in DOMAIN s :
       LET n(j) == Len(s) - j
       IN  /\ s[i] # 0 /\ \A j \in 1 .. i - 1 : s[j] = 0
           /\ n(i) <= 4
           /\ n(i) = 4 => \/ s[i] < 6
                          \/ s[i] = 6 /\ s[i + 1] < 5
                          \/ s[i] = 6 /\ s[i + 1] = 5 /\ s[i + 2] < 5
                          \/ s[i] = 6 /\ s[i + 1] = 5 /\ s[i + 2] = 5 /\ s[i + 3] < 3
                          \/ s[i] = 6 /\ s[i + 1] = 5 /\ s[i + 2] = 5 /\ s[i + 3] = 3 /\ s[i + 4] <= 5

(* The client connects unless there is no address or the port is none, of  *)
(* however many digits: no number is taken for another one.                *)
PortChecked ==
  pc # "start" =>
    (pc = "connecting" <=> Len(argv) = 1 \/ (Len(argv) = 2 /\ IsPort(argv[2])))

(* The usage line: the second argument is the port of the server.          *)
PortIsUsed ==
  pc = "connecting" /\ Len(argv) = 2 => iServerPort = atoi(argv[2])
===============================================================================
