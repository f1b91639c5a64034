------------------------------- MODULE X86ISA -------------------------------
(***************************************************************************)
(* The assembler and the instruction set of                                *)
(* ostep/homework/threads-locks/x86.py, as pure operators.                 *)
(*                                                                         *)
(* A program text is a sequence of lines: Var and Label lines, and         *)
(* instructions with up to two operands.  Load is the two-pass loader.     *)
(* Exec is what the instruction's method does to a thread's context        *)
(* (program counter, registers, condition codes) and to the memory.        *)
(***************************************************************************)
EXTENDS Integers, Sequences, SequencesExt

Registers == {"zero", "ax", "bx", "cx", "dx", "fx", "sp", "bp"}

(* The operands getarg tells apart. *)
Imm(n) == [kind |-> "imm", n |-> n]
Reg(r) == [kind |-> "reg", r |-> r]
Mem(n, r1, r2, scale) ==
    [kind |-> "mem", n |-> n, r1 |-> r1, r2 |-> r2, scale |-> scale]
At(n, r) == Mem(n, r, "zero", 1)
Name(x) == [kind |-> "name", x |-> x]      \* a variable or a label
NoArg == [kind |-> "none"]

Ins(op, a, b) == [op |-> op, a |-> a, b |-> b]
Var(x, size) == Ins(".var", x, size)
Label(x) == Ins(".label", x, NoArg)

-----------------------------------------------------------------------------
LoadAddr == 1000
DataAddr == 100

IsInstruction(line) == line.op \notin {".var", ".label"}

(* First pass: variables lie one after the other, four bytes for each
   element; a label is the address of the instruction that follows it. *)
VarAddr(text, x) ==
    LET i == CHOOSE k \in DOMAIN text : text[k].op = ".var" /\ text[k].a = x
        size(line) == IF line.op = ".var" THEN 4 * line.b ELSE 0
    IN  FoldLeft(LAMBDA sum, line : sum + size(line), DataAddr,
                 SubSeq(text, 1, i - 1))

LabelAddr(text, x) ==
    LET i == CHOOSE k \in DOMAIN text : text[k].op = ".label" /\ text[k].a = x
    IN  LoadAddr + Len(SelectSeq(SubSeq(text, 1, i), IsInstruction))

(* Second pass: names become addresses. *)
Jumps == {"j", "jne", "je", "jlt", "jlte", "jgt", "jgte", "call"}
Resolved(text, line, arg) ==
    IF arg.kind # "name" THEN arg
    ELSE IF line.op \in Jumps THEN Imm(LabelAddr(text, arg.x))
    ELSE At(VarAddr(text, arg.x), "zero")

Load(text) ==
    LET code == SelectSeq(text, IsInstruction)
    IN  [pc \in LoadAddr .. LoadAddr + Len(code) - 1 |->
           LET line == code[pc - LoadAddr + 1]
           IN  Ins(line.op, Resolved(text, line, line.a), Resolved(text, line, line.b))]

-----------------------------------------------------------------------------
(* A context; the six condition codes are the outcome of the last test. *)
Context(pc, reg) == [pc |-> pc, reg |-> reg, cc |-> "unset"]

Addr(o, c) == o.n + c.reg[o.r1] + o.scale * c.reg[o.r2]

(* xchg and fetchadd are assembled without the scale. *)
AtomicAddr(o, c) == o.n + c.reg[o.r1] + c.reg[o.r2]

Val(o, c, m) ==
    CASE o.kind = "imm" -> o.n
      [] o.kind = "reg" -> c.reg[o.r]
      [] o.kind = "mem" -> m[Addr(o, c)]

SetReg(c, r, v) == [c EXCEPT !.reg[r] = v]
SetMem(m, a, v) == [m EXCEPT ![a] = v]

(* Compared, with test's operands in the order it takes them. *)
Outcome(src, dst) == IF dst > src THEN "gt" ELSE IF dst < src THEN "lt" ELSE "eq"

Taken(op, cc) ==
    CASE op = "j" -> TRUE
      [] op = "je" -> cc = "eq"
      [] op = "jne" -> cc \in {"lt", "gt"}
      [] op = "jlt" -> cc = "lt"
      [] op = "jlte" -> cc \in {"lt", "eq"}
      [] op = "jgt" -> cc = "gt"
      [] op = "jgte" -> cc \in {"gt", "eq"}

Arith(op, dst, src) ==
    CASE op = "add" -> dst + src
      [] op = "sub" -> dst - src
      [] op = "mul" -> dst * src

(* The context c has its pc already past the instruction. *)
Exec(i, c, m) ==
    LET sp == c.reg["sp"]
        both(ctx, mem) == [ctx |-> ctx, mem |-> mem]
        push(v) == SetMem(m, sp - 4, v)
    IN
    CASE i.op = "mov" /\ i.b.kind = "reg" ->
           both(SetReg(c, i.b.r, Val(i.a, c, m)), m)
      [] i.op = "mov" /\ i.b.kind = "mem" ->
           both(c, SetMem(m, Addr(i.b, c), Val(i.a, c, m)))
      [] i.op = "lea" ->
           both(SetReg(c, i.b.r, Addr(i.a, c)), m)
      [] i.op \in {"add", "sub", "mul"} ->
           both(SetReg(c, i.b.r, Arith(i.op, c.reg[i.b.r], Val(i.a, c, m))), m)
      [] i.op = "neg" ->
           both(SetReg(c, i.a.r, -c.reg[i.a.r]), m)
      [] i.op = "xchg" ->
           LET a == AtomicAddr(i.b, c)
           IN  both(SetReg(c, i.a.r, m[a]), SetMem(m, a, c.reg[i.a.r]))
      [] i.op = "fetchadd" ->
           LET a == AtomicAddr(i.b, c)
           IN  both(SetReg(c, i.a.r, m[a]), SetMem(m, a, m[a] + c.reg[i.a.r]))
      [] i.op = "test" ->
           both([c EXCEPT !.cc = Outcome(Val(i.a, c, m), Val(i.b, c, m))], m)
      [] i.op \in Jumps \ {"call"} ->
           both(IF Taken(i.op, c.cc) THEN [c EXCEPT !.pc = i.a.n] ELSE c, m)
      [] i.op = "call" ->
           both([SetReg(c, "sp", sp - 4) EXCEPT !.pc = i.a.n], push(c.pc))
      [] i.op = "ret" ->
           both([SetReg(c, "sp", sp + 4) EXCEPT !.pc = m[sp]], m)
      [] i.op = "push" ->
           both(SetReg(c, "sp", sp - 4),
                push(IF i.a.kind = "mem" THEN Addr(i.a, SetReg(c, "sp", sp - 4))
                     ELSE SetReg(c, "sp", sp - 4).reg[i.a.r]))
      [] i.op = "pop" ->
           both(IF i.a.kind = "reg"
                THEN SetReg(SetReg(c, i.a.r, m[sp]), "sp",
                            (IF i.a.r = "sp" THEN m[sp] ELSE sp) + 4)
                ELSE SetReg(c, "sp", sp + 4), m)
      [] i.op \in {"nop", "yield", "halt"} -> both(c, m)
=============================================================================
