---------------------------- MODULE MCWireTransfer ----------------------------
(***************************************************************************)
(* Instances of WireTransfer: modules whose instructions are every         *)
(* operation that the compiler makes, with operands on both sides of every *)
(* limit of a short form, and configurations of each form a seed has.      *)
(***************************************************************************)
EXTENDS WireTransfer

MCStringAtoms == <<<<>>, <<1>>, <<3, 4, 9>>>>
MCPrefixAtoms == <<<<3>>, <<3, 4>>>>
MCTrailing == {0, 255}

R(n) == Operand("reg", n)
K(n) == Operand("const", n)
S(n) == Operand("slot", n)
X(n) == Operand("extern", n)
N(n) == Operand("name", n)
F(n) == Operand("fn", n)
C(n) == Operand("count", n)
Plus == Operand("operator", 31)
Let == Operand("decl", 1)
Scope == Operand("scope", 3)
I(op, args) == Instr(op, args)

Double == Const("double", <<0, 128, 255, 1, 2, 3, 4, 63>>)
Constants ==
    <<Const("string", <<3, 4, 5>>), Undefined, Null, Bool(TRUE), Bool(FALSE), IntegerOf(-64),
      IntegerOf(63), IntegerOf(64), Double, Const("bigint", <<7, 8>>), IntegerOf(-65),
      NegativeZero, IntegerOf(0)>>

Names == <<<<1>>, <<5, 6>>, <<3, 1>>, <<3, 4>>, <<3, 3, 5>>>>

Functions ==
    <<Function(NoIndex, 0, 128, 0, FALSE, <<>>), Function(4, 127, 129, 3, TRUE, <<N(2), N(3), S(15), S(16), None>>)>>

Loads == [k \in 1..13 |-> I("LoadConst", <<R(k), K(k - 1)>>)]
ShortLoads == [k \in 1..4 |-> I("LoadIntSmall", <<R(k), K(<<5, 6, 11, 12>>[k])>>)]
Locals ==
    <<I("LoadName", <<R(15), S(15)>>), I("LoadName", <<R(16), S(15)>>), I("LoadName", <<R(2), S(16)>>),
      I("StoreName", <<S(15), R(15)>>), I("StoreName", <<S(15), R(16)>>), I("StoreName", <<S(3), K(1)>>),
      I("LoadName", <<R(63), N(3)>>), I("LoadName", <<R(64), X(8)>>), I("Declare", <<Let, S(128)>>),
      I("DeclareStoreLocal", <<Let, S(2), R(128)>>), I("StoreLocalMemberConst", <<Let, S(9), R(64), K(0)>>)>>
Boundaries ==
    <<I("Move", <<R(127), R(63)>>), I("Move", <<R(128), R(64)>>), I("Move", <<R(0), K(31)>>),
      I("Move", <<R(0), K(32)>>), I("Move", <<R(0), S(15)>>), I("Move", <<R(0), S(16)>>),
      I("Move", <<R(0), X(7)>>), I("Move", <<R(0), X(8)>>), I("Await", <<R(0), N(2)>>),
      I("Await", <<R(0), N(3)>>), I("Throw", <<S(16384)>>), I("Return", <<None>>),
      I("Return", <<R(1)>>), I("Return", <<K(2)>>), I("Return", <<S(1)>>), I("Pop", <<R(64)>>),
      I("Pop", <<N(1)>>), I("CatchStart", <<None>>), I("CatchStart", <<N(3)>>)>>
Members ==
    <<I("Member", <<R(1), R(2), K(0)>>), I("Member", <<R(1), R(2), R(3)>>),
      I("StoreMember", <<R(1), K(0), R(64)>>), I("StoreMember", <<R(1), R(2), K(32)>>),
      I("MemberLocalConst", <<R(15), S(15), K(0)>>), I("MemberLocal", <<R(1), S(0), R(64)>>),
      I("Binary", <<R(1), Plus, R(2), R(3)>>), I("Binary", <<R(1), Plus, R(2), K(9)>>),
      I("Binary", <<R(1), Plus, S(16), K(9)>>), I("BinaryLocalConst", <<R(1), S(15), Plus, K(9)>>),
      I("Unary", <<R(1), Plus, X(8)>>)>>
CallsOf ==
    <<I("Call", <<R(1), R(2), C(0)>>), I("Call", <<R(1), X(7), C(1), R(64)>>),
      I("Call", <<R(1), R(2), C(2), K(1), K(32)>>), I("Call", <<R(1), R(2), C(3), R(1), None, N(3)>>),
      I("CallLocalZero", <<R(1), S(2), C(0)>>), I("CallLocalOne", <<R(1), S(2), C(1), R(64)>>),
      I("CallLocalTwo", <<R(15), S(15), C(2), R(64), S(16)>>), I("New", <<R(1), R(2), C(0)>>),
      I("New", <<R(1), X(9), C(2), R(1), R(64)>>)>>
Shapes ==
    <<I("Array", <<R(1), C(0)>>), I("Array", <<R(1), C(2), R(64), K(1)>>),
      I("Object", <<R(1), C(2), K(0), R(1), K(9), S(16)>>), I("ObjectRest", <<R(1), R(2), C(1), K(0)>>),
      I("Template", <<R(1), C(2), K(0), K(0), C(1), R(64)>>),
      I("Class", <<None, N(3), None, C(1), K(0)>>), I("Class", <<R(64), None, R(1), C(0)>>),
      I("Import", <<K(0), C(2), K(0), K(9)>>), I("Export", <<K(0), C(1), K(9), N(1)>>),
      I("FunctionStart", <<F(3)>>), I("FunctionEnd", <<>>), I("FunctionExprStart", <<R(128), F(4)>>),
      I("FunctionExprEnd", <<>>), I("Marker", <<K(0)>>), I("Unsupported", <<K(0)>>), I("Label", <<Operand("label", 130)>>),
      I("Yield", <<None, R(64)>>), I("Yield", <<K(1), None>>)>>
Jumps ==
    <<I("Jump", <<C(127)>>), I("Jump", <<C(128)>>), I("JumpIfFalse", <<R(1), C(16384)>>),
      I("JumpIfFalse", <<S(16), C(2)>>), I("JumpIfTrueReg", <<R(1), C(2)>>),
      I("JumpIfLocalBinaryConstFalse", <<R(1), S(16), R(2), Plus, K(32), C(3)>>),
      I("JumpIfLocalBinaryConstTrue", <<R(1), S(16), R(2), Plus, K(32), C(3)>>),
      I("MoveJumpReg", <<R(1), S(16), R(2), C(3), C(128)>>), I("MoveJumpFallthroughReg", <<R(1), R(64), R(2), C(3)>>),
      I("BinaryRegRegJump", <<R(1), Plus, R(2), R(3), R(4), C(5), C(6)>>),
      I("BinaryRegRegJumpFallthrough", <<R(1), Plus, R(2), R(3), R(4), C(5)>>),
      I("ReturnIfLocalFalse", <<R(1), S(16), None>>),
      I("ReturnIfLocalFalseElseMemberBinaryConst", <<S(16), R(64), K(0), Plus, K(9)>>),
      I("EnterScope", <<Scope>>), I("LeaveScope", <<>>), I("TryStart", <<>>), I("FinallyStart", <<>>), I("TryEnd", <<>>)>>

MCModules ==
    {Module(0, 0, <<>>, <<>>, <<>>, <<>>), Module(0, MaxExterns + 1, <<>>, <<>>, <<>>, <<>>),
     Module(0, 0, <<>>, <<>>, Constants, <<I("Move", <<K(1), R(0)>>)>>),
     Module(0, 0, <<>>, <<>>, Constants, <<I("LoadIntSmall", <<R(0), K(7)>>)>>),
     Module(1, 9, Names, Functions, Constants, <<>>)}
    \cup {Module(0, 0, <<>>, <<>>, Constants, code) :
            code \in {Loads, ShortLoads, Locals, Boundaries}}
    \cup {Module(1, 128, <<>>, <<>>, Constants, code) : code \in {Members, CallsOf, Shapes, Jumps}}

MCConfigs ==
    {DefaultConfig,
     Config(Ops, OperandTags, ConstantTags, <<1, 0, 2>>, NoKey),
     Config(Reverse(Ops), Reverse(OperandTags), Reverse(ConstantTags), <<>>, 77),
     Config(Reverse(Ops), OperandTags, Reverse(ConstantTags), <<2, 0, 1>>, 78)}
=============================================================================
