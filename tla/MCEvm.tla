------------------------------- MODULE MCEvm -------------------------------
(* Programs, worlds and transactions for module Evm.  Words have 3 bytes,   *)
(* addresses 2, gas is a number below 2^20.                                 *)
EXTENDS Evm

P1(x) == <<96, x>>
P2(x) == <<97, x \div 256, x % 256>>
P3(x) == <<98, x \div 65536, (x \div 256) % 256, x % 256>>

\* Every instruction that stays in its frame.
ArithmeticCode ==
  P1(3) \o P1(200) \o <<1>> \o P1(7) \o <<3>> \o P1(5) \o <<2>> \o P1(9) \o <<4>> \o P3(16777215) \o <<5>>
  \o P1(4) \o <<6>> \o P1(3) \o <<7>> \o P1(5) \o P1(4) \o P1(3) \o <<8>> \o P1(9) \o P1(7) \o <<9>>
  \o P1(2) \o <<10>> \o P1(0) \o <<11>> \o P1(1) \o <<16>> \o P1(1) \o <<17>> \o P1(1) \o <<18>>
  \o P1(1) \o <<19>> \o P1(1) \o <<20, 21>> \o P1(6) \o <<22>> \o P1(6) \o <<23>> \o P1(6) \o <<24, 25>>
  \o P1(1) \o <<26>> \o P1(1) \o <<27>> \o P1(1) \o <<28>> \o P1(1) \o <<29>> \o P1(0) \o P1(0) \o <<32, 80, 80>>

ContextCode ==
  <<48, 49, 50, 51, 52, 80>> \o P1(0) \o <<53, 54, 56, 58, 80, 80, 80, 59, 61, 63, 64, 65, 66, 67, 69, 88>>
  \o <<80, 80, 80, 80, 80, 80, 89, 90, 128, 145>> \o P1(3) \o <<81>> \o P2(300) \o P1(1) \o <<83>>
  \o P1(9) \o P1(6) \o <<82>> \o P1(4) \o P1(1) \o P1(0) \o <<55>> \o P1(2) \o P1(0) \o P1(3) \o <<57>>
  \o P1(2) \o P1(0) \o P1(3) \o P1(20) \o <<60>> \o P1(7) \o P1(3) \o P1(2) \o <<161>>
  \o P1(3) \o P1(0) \o <<243>>

\* A loop: slot 1 counts until the gas is gone.
LoopCode == <<91>> \o P1(1) \o <<84>> \o P1(1) \o <<1>> \o P1(1) \o <<85>> \o P1(0) \o <<86>>
\* A conditional jump taken once, then one into the argument of a PUSH.
JumpCode == P1(1) \o P1(6) \o <<87, 0, 91>> \o P1(0) \o P1(0) \o <<87>> \o P1(17) \o <<86, 80>> \o P1(91) \o <<0>>
StackCode == <<91>> \o P1(0) \o P1(0) \o <<86>>
UnderflowCode == P1(1) \o <<1>>
WideCode == P1(1) \o P3(16777215) \o <<82>>

Store(k, v) == P1(v) \o P1(k) \o <<85>>
MakeCall(op, gas, to, in, insize, out, outsize) ==
  P1(outsize) \o P1(out) \o P1(insize) \o P1(in) \o (IF op \in {241, 242} THEN P1(0) ELSE <<>>) \o P1(to)
  \o P3(gas) \o <<op>>

\* 20 stores what it is given and returns it; with no input it clears slot 0.
CalleeCode == P1(0) \o <<53>> \o P1(0) \o <<85>> \o P1(0) \o <<53>> \o P1(0) \o <<82>> \o P1(3) \o P1(0) \o <<243>>
\* 21 stores and reverts with two bytes, 22 stores and fails.
RevertCode == Store(0, 5) \o P1(2) \o P1(0) \o <<253>>
FailCode == Store(0, 5) \o <<254>>

\* 23 calls 20, 21, 22 and the missing 99, stores the results and copies the
\* return data; then reads past its end.
CallerCode ==
  P3(65793) \o P1(0) \o <<82>>
  \o MakeCall(241, 30000, 20, 0, 3, 3, 3) \o P1(1) \o <<85>>
  \o MakeCall(241, 30000, 21, 0, 0, 0, 3) \o P1(2) \o <<85>>
  \o P1(2) \o P1(0) \o P1(0) \o <<62>>
  \o MakeCall(241, 30000, 22, 0, 0, 0, 0) \o <<80>>
  \o MakeCall(241, 500, 99, 0, 0, 0, 0) \o <<80>>
  \o P1(1) \o P1(0) \o P1(0) \o <<62>>
\* 24 calls 20, then fails.
BreakCode == P1(7) \o P1(2) \o <<83>> \o MakeCall(241, 30000, 20, 0, 3, 0, 0) \o <<253>>
\* 25 with no input calls itself with op; with input it writes.
SelfTarget(op) == Len(<<54>> \o P1(0) \o <<87>> \o MakeCall(op, 0, 0, 0, 0, 0, 0) \o MakeCall(241, 0, 0, 0, 0, 0, 0) \o <<0>>)
SelfProgram(op, tail) ==
  <<54>> \o P1(SelfTarget(op)) \o <<87>> \o MakeCall(op, 60000, 25, 0, 1, 0, 3) \o MakeCall(241, 30000, 20, 0, 0, 0, 0)
  \o <<0, 91>> \o tail
\* 25 with no input calls itself; that call calls itself again and fails; the
\* innermost call writes.
ReenterHead(to1) == <<54>> \o P1(to1) \o <<87>> \o MakeCall(241, 60000, 25, 0, 1, 0, 0) \o <<0>>
ReenterMid(to2) == <<91>> \o P1(1) \o <<54, 3>> \o P1(to2) \o <<87>> \o MakeCall(241, 30000, 25, 0, 2, 0, 0) \o <<254>>
ReenterCode ==
  ReenterHead(Len(ReenterHead(0))) \o ReenterMid(Len(ReenterHead(0)) + Len(ReenterMid(0)))
    \o <<91>> \o Store(0, 3)
\* Recursion until the depth limit.
DeepCode(op, self) == MakeCall(op, 400000, self, 0, 0, 0, 0) \o P1(0) \o <<85>>

\* Init code that returns one byte (STOP), and a factory that runs it with
\* CREATE and CREATE2.
FactoryCode(op) ==
  \* 96 1 96 0 243 : RETURN(0, 1)
  P3(6291808) \o P1(0) \o <<82>> \o P3(62208) \o P1(3) \o <<82>>
  \o (IF op = 245 THEN P1(1) ELSE <<>>) \o P1(5) \o P1(0) \o P1(1) \o <<op>> \o P1(0) \o <<85>>
DestructCode == P1(11) \o <<255>>
\* A call of 20 puts the caller's account into 20's world, the next one pays.
ValueCode == MakeCall(241, 30000, 20, 0, 0, 0, 0) \o P1(0) \o P1(0) \o P1(0) \o P1(0) \o P1(2) \o P1(20) \o P2(30000) \o <<241>>
               \o P1(0) \o P1(0) \o P1(0) \o P1(0) \o P1(2) \o P1(25) \o P2(500) \o <<242>>
NativeCode == P1(1) \o P1(0) \o <<82>> \o P1(1) \o P1(3) \o <<82>> \o P1(1) \o P1(6) \o <<82>> \o P3(131840) \o P1(9) \o <<82>>
  \o MakeCall(241, 30000, 5, 0, 12, 0, 3) \o MakeCall(241, 500, 4, 0, 4, 3, 4) \o MakeCall(241, 1000, 2, 0, 3, 0, 3)
  \o MakeCall(241, 200000, 8, 0, 4, 0, 0) \o MakeCall(241, 10, 1, 0, 0, 0, 0)
SstoreCode == Store(0, 9) \o Store(0, 0) \o P1(0) \o <<84>> \o Store(1, 4)

Account(bal, code, store) == [bal |-> bal, nonce |-> 0, code |-> code, store |-> store, suicided |-> FALSE]
Contract(a, code) == a :> (a :> Account(0, code, <<>>))

\* The contract at 25 is one of these; every other contract is fixed.
Programs == {ArithmeticCode, ContextCode, LoopCode, JumpCode, StackCode, UnderflowCode, WideCode, CallerCode,
             BreakCode, SelfProgram(250, Store(0, 3)), SelfProgram(250, P1(1) \o P1(0) \o P1(0) \o <<161>>),
             SelfProgram(244, Store(0, 3)), SelfProgram(242, Store(0, 3)), SelfProgram(241, Store(0, 3)), ReenterCode,
             SelfProgram(250, MakeCall(241, 20000, 20, 0, 0, 0, 0) \o DestructCode),
             DeepCode(241, 25), DeepCode(244, 25), DeepCode(250, 25), FactoryCode(240), FactoryCode(245),
             DestructCode, ValueCode, NativeCode, SstoreCode}

MCWorlds ==
  {Contract(20, CalleeCode) @@ Contract(21, RevertCode) @@ Contract(22, FailCode)
     @@ (25 :> (25 :> Account(4, p, <<>>) @@ 20 :> Account(0, <<>>, <<>>))) : p \in Programs}
MCLedger == 10 :> 50 @@ 11 :> 5 @@ 25 :> 4
Gas == {20000, 21400, 45000, 500000}

Deploy(code, gas) == [kind |-> "deploy", from |-> 10, to |-> 0, data |-> code, gas |-> gas, value |-> 3,
                      time |-> 1, hash |-> 77]
Execute(to, data, gas) == [kind |-> "execute", from |-> 10, to |-> to, data |-> data, gas |-> gas, value |-> 0,
                           time |-> 2, hash |-> 78]

MCTxs == {Execute(25, d, g) : d \in {<<>>}, g \in Gas}
           \cup {Execute(20, <<0, 0, 1>>, 500000), Execute(99, <<>>, 30000)}
           \cup {[Deploy(<<>>, 100000) EXCEPT !.value = 60]}
           \cup {Deploy(c, g) : c \in {<<>>, <<96, 1, 96, 0, 243>>, <<96, 0, 96, 0, 253>>, <<254>>}, g \in {53000, 100000}}
=============================================================================
