--------------------------------- MODULE VM ---------------------------------
(***************************************************************************)
(* The stack machine that runs a transaction's bytes: vm/vm.go with        *)
(* vm/stack.go, vm/instruction.go and vm/state.go.                         *)
(*                                                                         *)
(* Run walks over the bytes from the first to the last and executes every  *)
(* one of them; a byte that is no instruction does nothing.  A push takes  *)
(* the byte before it, which was executed a step earlier.  Programs run    *)
(* one after the other, as AddBlock runs a block's transactions: each on a *)
(* stack of its own and all on one contract state.                         *)
(***************************************************************************)
EXTENDS Integers, SequencesExt

CONSTANTS
    Source,    \* the source texts whose programs are run
    Depth,     \* the depth of the stack, 1024 in NewStack
    MaxInt,    \* the largest int, 2^63 - 1
    MaxLen,    \* the longest slice that make can build
    MaxRuns    \* bound: the programs run one after the other

Byte == 0 .. 255

ASSUME DepthAssumption == Depth \in Nat \ {0} /\ MaxRuns \in Nat

ASSUME WidthAssumption == MaxInt \in Nat /\ MaxLen \in 255 .. MaxInt

(* The bytes of a text are bytes, and so is the length of a key; a "set" has a
   number to store. *)
ASSUME SourceAssumption ==
    \A src \in Source :
       /\ src \in Seq([op : {"set", "get", "code"}, key : Seq(Byte), ints : Seq(Byte)])
       /\ \A i \in DOMAIN src :
             /\ Len(src[i].key) \in Byte
             /\ src[i].op = "set" => src[i].ints # <<>>

InstructionPushInt   == 10
InstructionAddInt    == 11
InstructionPushBytes == 12
InstructionPack      == 13
InstructionStore     == 15
InstructionGet       == 16

Instructions == {InstructionPushInt, InstructionAddInt, InstructionPushBytes,
                 InstructionPack, InstructionStore, InstructionGet}

(***************************************************************************)
(* A slot of the stack is an `any' with its dynamic type: an int, a byte   *)
(* or a []byte.  The first two hold a sequence of one.                     *)
(***************************************************************************)
Int_(n) == [type |-> "int", val |-> <<n>>]

MinInt == -MaxInt - 1

(* What is left of a sum of two ints. *)
Wrapped(n) ==
    IF n > MaxInt THEN n - 2 * (MaxInt + 1)
    ELSE IF n < MinInt THEN n + 2 * (MaxInt + 1)
    ELSE n

Byte_(b) == [type |-> "byte", val |-> <<b>>]

Bytes_(s) == [type |-> "bytes", val |-> s]

(***************************************************************************)
(* The source text of a program, and its bytes as transactionAdder puts    *)
(* them together: a "set" packs the bytes of the key, adds up the ints and *)
(* stores the sum, a "get" looks the key up.  "code" is any other bytes,   *)
(* among them the trailing byte that makes two equal programs differ.      *)
(***************************************************************************)
PushAll(s, inst) == FlattenSeq([i \in DOMAIN s |-> <<s[i], inst>>])

KeyCode(key) ==
    PushAll(key, InstructionPushBytes)
      \o <<Len(key), InstructionPushInt, InstructionPack>>

SumCode(ints) ==
    PushAll(ints, InstructionPushInt)
      \o [i \in 1 .. Len(ints) - 1 |-> InstructionAddInt]

Statement(s) ==
    CASE s.op = "set" -> KeyCode(s.key) \o SumCode(s.ints) \o <<InstructionStore>>
      [] s.op = "get" -> KeyCode(s.key) \o <<InstructionGet>>
      [] OTHER        -> s.key

Compile(src) == FlattenSeq([i \in DOMAIN src |-> Statement(src[i])])

VARIABLES
    source,          \* history: the source text of the program that runs
    before,          \* history: the contract state when it was started
    data,            \* its bytes
    ip,              \* the instruction pointer, from 0
    stack,           \* data[:ptr] of the stack
    contractState,   \* from a key, a sequence of bytes, to a value
    status,          \* "running", or how Run ended: "nil", "error", "panic"
    runs             \* the programs started so far

vars == <<source, before, data, ip, stack, contractState, status, runs>>

program == <<source, before, data, runs>>

-----------------------------------------------------------------------------
Start(src) ==
    /\ source' = src
    /\ data' = Compile(src)
    /\ before' = contractState
    /\ ip' = 0
    /\ stack' = <<>>
    /\ status' = "running"

Init ==
    /\ source = <<>>
    /\ data = <<>>
    /\ before = <<>>
    /\ ip = 0
    /\ stack = <<>>
    /\ contractState = <<>>
    /\ status = "nil"
    /\ runs = 0

(***************************************************************************)
(* The next transaction of the block.  An error ends AddBlock, and the     *)
(* next call goes on with the state as it was left; a panic ends all.      *)
(***************************************************************************)
NewVM(src) ==
    /\ status \in {"nil", "error"}
    /\ runs < MaxRuns
    /\ Start(src)
    /\ runs' = runs + 1
    /\ UNCHANGED contractState

Reaches(inst) == status = "running" /\ ip < Len(data) /\ data[ip + 1] = inst

Continue(st) ==
    /\ stack' = st
    /\ ip' = ip + 1
    /\ status' = IF ip + 1 >= Len(data) THEN "nil" ELSE "running"
    /\ UNCHANGED program

(* What is left on the stack of a run that failed is never read. *)
Stop(how) ==
    /\ status' = how
    /\ UNCHANGED <<program, ip, stack, contractState>>

(* vm.data[0] of a program without bytes. *)
RunEmpty ==
    /\ status = "running"
    /\ data = <<>>
    /\ Stop("panic")

-----------------------------------------------------------------------------
(* Mutant of Full: one slot late. *)
FullLate(st) == Len(st) > Depth

Full(st) == Len(st) = Depth

Push(st, v) ==
    \/ Full(st) /\ Stop("error")
    \/ ~Full(st) /\ Continue(Append(st, v)) /\ UNCHANGED contractState

(* Mutant of Operand: the byte after the instruction. *)
OperandAfter == data[IF ip + 2 \in DOMAIN data THEN ip + 2 ELSE ip + 1]

Operand == data[ip]

PushLiteral(inst, v) ==
    /\ Reaches(inst)
    /\ \/ ip = 0 /\ Stop("panic")
       \/ ip > 0 /\ Push(stack, v)

PushInt == PushLiteral(InstructionPushInt, Int_(Operand))

PushBytes == PushLiteral(InstructionPushBytes, Byte_(Operand))

(***************************************************************************)
(* The n values on top, and what is under them.  A pop of the empty stack  *)
(* is an error, a value of another type than asked for a panic; whichever  *)
(* comes first from the top decides.                                       *)
(***************************************************************************)
Top(st, n) == SubSeq(st, Len(st) - n + 1, Len(st))

Below(st, n) == SubSeq(st, 1, Len(st) - n)

AddInt ==
    /\ Reaches(InstructionAddInt)
    /\ \/ Len(stack) < 2 /\ Stop("error")
       \/ /\ Len(stack) >= 2
          /\ LET top == Top(stack, 2) IN
             \/ /\ \E i \in 1 .. 2 : top[i].type # "int"
                /\ Stop("panic")
             \/ /\ \A i \in 1 .. 2 : top[i].type = "int"
                /\ Push(Below(stack, 2), Int_(Wrapped(top[1].val[1] + top[2].val[1])))

(***************************************************************************)
(* Pack: the length, for which make panics when it is negative or more     *)
(* than there is memory for, then as many bytes.  The error of the last    *)
(* push is dropped.                                                        *)
(***************************************************************************)
PushUnchecked(st, v) == Continue(IF Full(st) THEN st ELSE Append(st, v))

PackBytes(st, n) ==
    \/ n \notin 0 .. MaxLen /\ Stop("panic")
    \/ /\ n \in 0 .. MaxLen
       /\ \E i \in DOMAIN st : Len(st) - i < n /\ st[i].type # "byte"
       /\ Stop("panic")
    \/ /\ n \in 0 .. MaxLen
       /\ \A i \in DOMAIN st : Len(st) - i < n => st[i].type = "byte"
       /\ \/ Len(st) < n /\ Stop("error")
          \/ /\ Len(st) >= n
             /\ PushUnchecked(Below(st, n),
                              Bytes_([i \in 1 .. n |-> Top(st, n)[i].val[1]]))
             /\ UNCHANGED contractState

(* Mutant of Pack: the length is read and left on the stack. *)
PackPeeks ==
    /\ Reaches(InstructionPack)
    /\ \/ stack = <<>> /\ Stop("error")
       \/ /\ stack # <<>>
          /\ \/ Last(stack).type # "int" /\ Stop("panic")
             \/ /\ Last(stack).type = "int"
                /\ PackBytes(stack, Last(stack).val[1])

Pack ==
    /\ Reaches(InstructionPack)
    /\ \/ stack = <<>> /\ Stop("error")
       \/ /\ stack # <<>>
          /\ \/ Last(stack).type # "int" /\ Stop("panic")
             \/ /\ Last(stack).type = "int"
                /\ PackBytes(Front(stack), Last(stack).val[1])

-----------------------------------------------------------------------------
(* state.data[k] = v *)
Updated(state, k, v) ==
    [x \in {k} \union DOMAIN state |-> IF x = k THEN v ELSE state[x]]

StoreValue(key, v) == contractState' = Updated(contractState, key.val, v)

Store ==
    /\ Reaches(InstructionStore)
    /\ \/ Len(stack) < 2 /\ Stop("error")
       \/ /\ Len(stack) >= 2
          /\ LET top == Top(stack, 2) IN
             \/ top[1].type # "bytes" /\ Stop("panic")
             \/ /\ top[1].type = "bytes"
                /\ StoreValue(top[1], top[2])
                /\ Continue(Below(stack, 2))

Get ==
    /\ Reaches(InstructionGet)
    /\ \/ stack = <<>> /\ Stop("error")
       \/ /\ stack # <<>>
          /\ \/ Last(stack).type # "bytes" /\ Stop("panic")
             \/ /\ Last(stack).type = "bytes"
                /\ \/ Last(stack).val \notin DOMAIN contractState /\ Stop("error")
                   \/ /\ Last(stack).val \in DOMAIN contractState
                      /\ Push(Front(stack), contractState[Last(stack).val])

(* An operand, or any other byte that is no instruction. *)
Skip ==
    /\ \E b \in Byte \ Instructions : Reaches(b)
    /\ Continue(stack)
    /\ UNCHANGED contractState

Exec == PushInt \/ AddInt \/ PushBytes \/ Pack \/ Store \/ Get \/ Skip

Next == RunEmpty \/ Exec \/ \E src \in Source : NewVM(src)

Spec == Init /\ [][Next]_vars

-----------------------------------------------------------------------------
(***************************************************************************)
(* Properties.                                                             *)
(***************************************************************************)
Values == [type : {"int", "byte", "bytes"}, val : Seq(Int)]

IsValue(v) ==
    /\ v \in Values
    /\ v.type \in {"int", "byte"} => Len(v.val) = 1
    /\ v.type = "int" => v.val[1] \in MinInt .. MaxInt
    /\ v.type \in {"byte", "bytes"} => \A i \in DOMAIN v.val : v.val[i] \in Byte

(* Stack, pointer and contract state have the types of the Go declarations:
   the stack stays within its array, keys are bytes. *)
TypeOK ==
    /\ data \in Seq(Byte)
    /\ ip \in 0 .. Len(data)
    /\ stack \in Seq(Values)
    /\ Len(stack) <= Depth
    /\ \A i \in DOMAIN stack : IsValue(stack[i])
    /\ \A k \in DOMAIN contractState : k \in Seq(Byte) /\ IsValue(contractState[k])
    /\ status \in {"running", "nil", "error", "panic"}
    /\ runs \in 0 .. MaxRuns

(***************************************************************************)
(* What a source text means, statement by statement, up to the first that  *)
(* fails: it needs more slots than are left, or a key that is not there.   *)
(***************************************************************************)
Sums(ints) ==
    LET sum[i \in 0 .. Len(ints)] == IF i = 0 THEN 0 ELSE sum[i - 1] + ints[i]
    IN  sum

SumOf(ints) == Sums(ints)[Len(ints)]

(* The sum of a "set" is an int: it has less than 2^55 bytes to add. *)
ASSUME SumAssumption ==
    \A src \in Source : \A i \in DOMAIN src :
        src[i].op = "set" => SumOf(src[i].ints) <= MaxInt

Slots(s) ==
    IF s.op = "set" /\ Len(s.ints) > Len(s.key) THEN Len(s.ints) + 1 ELSE Len(s.key) + 1

MeaningOf(m, s) ==
    IF ~m.ok \/ s.op = "code"
    THEN m
    ELSE IF Len(m.out) + Slots(s) > Depth \/ (s.op = "get" /\ s.key \notin DOMAIN m.state)
    THEN [m EXCEPT !.ok = FALSE]
    ELSE IF s.op = "set"
    THEN [m EXCEPT !.state = Updated(@, s.key, Int_(SumOf(s.ints)))]
    ELSE [m EXCEPT !.out = Append(@, m.state[s.key])]

Meanings(src, state) ==
    LET m[i \in 0 .. Len(src)] ==
            IF i = 0 THEN [ok |-> TRUE, state |-> state, out |-> <<>>]
                     ELSE MeaningOf(m[i - 1], src[i])
    IN  m

Meaning == Meanings(source, before)[Len(source)]

Elements(s) == {s[i] : i \in DOMAIN s}

(* No byte of the text that is meant as data is an instruction. *)
Inert(s) ==
    /\ Elements(s.key) \intersect Instructions = {}
    /\ Len(s.key) \notin Instructions
    /\ s.op = "set" => Elements(s.ints) \intersect Instructions = {}

(* Although operands are executed before they are used, a program whose
   operands are no instructions does what its text says: it ends with the sums
   stored and the looked up values on the stack, and it fails, never panics,
   exactly where a statement finds no slot or no key, the ones before it done. *)
CompiledRuns ==
    (\A i \in DOMAIN source : Inert(source[i])) /\ status # "running" /\ data # <<>> =>
       /\ contractState = Meaning.state
       /\ Meaning.ok => status = "nil" /\ stack = Meaning.out
       /\ ~Meaning.ok => status = "error"

(* Pack drops the error of its push, and need not look at it: in whatever
   program, a Pack that goes on leaves the packed bytes on top of the stack. *)
PackNeverDrops ==
    [][Pack /\ ip' # ip => stack' # <<>> /\ Last(stack').type = "bytes"]_vars
=============================================================================
