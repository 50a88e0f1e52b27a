----------------------------- MODULE ScriptEval -----------------------------
(***************************************************************************)
(* Expressions of linker scripts: src/script/eval.rs, evaluated against    *)
(* the script layout engine (the EvalContext of                            *)
(* src/elf/script_layout/engine.rs).                                       *)
(*                                                                         *)
(* An expression is [op, args, name, num].  A value is [val, sec, dot]:    *)
(* sec is NUMBER, ABSOLUTE or the output section it is relative to; dot    *)
(* says that the value comes from the location counter.  Evaluation can    *)
(* change the engine (the DATA_SEGMENT state, errors), so it maps an       *)
(* engine st to [st, v]; st.err is set when it fails.  Arithmetic wraps at *)
(* AddrLimit.                                                              *)
(***************************************************************************)
EXTENDS ElfLayout, Bitwise

CONSTANT AddrBits  \* 64

ASSUME ScriptConstants == AddrBits \in 8 .. 14 /\ Page < 2 ^ AddrBits

AddrLimit == 2 ^ AddrBits

NUMBER == 0
ABSOLUTE == -1
NoOut == 0

ScriptOf(st) == st.script[1]
Stmt(st, i) == ScriptOf(st).outs[i]

Value(val, sec) == [val |-> val % AddrLimit, sec |-> sec, dot |-> FALSE]
Number(n) == Value(n, NUMBER)
Absolute(n) == Value(n, ABSOLUTE)
Truth(b) == Number(IF b THEN 1 ELSE 0)

Ok(st, v) == [st |-> st, v |-> v]
Fail(st, what) == [st |-> [st EXCEPT !.err = what], v |-> Number(0)]
Failed(r) == r.st.err # ""

\* align_n of GNU ld: any alignment, wrapping at the end of the addresses.
AlignN(value, align) ==
  IF align <= 1 THEN value
  ELSE ((((value + align - 1) % AddrLimit) \div align) * align) % AddrLimit

Log2Ceil(value) ==
  CHOOSE n \in 0 .. AddrBits : 2 ^ n >= value /\ (n = 0 \/ 2 ^ (n - 1) < value)

\* The address a value stands for.
AddressOf(st, v) ==
  (v.val + (IF v.sec \in {NUMBER, ABSOLUTE} THEN 0 ELSE st.outs[v.sec].vma)) % AddrLimit

MakeAbs(st, v) == Absolute(AddressOf(st, v))

\* An address as seen from where the expression stands.
RelFromAbs(st, address) ==
  IF st.cur # NoOut THEN Value(address - st.outs[st.cur].vma, st.cur)
  ELSE [Absolute(address) EXCEPT !.dot = TRUE]

OutsideInsane(st) == st.cur = NoOut /\ ~ScriptOf(st).saneExpr

\* Two operands of different sections become addresses; a number takes the
\* section of the other operand, which is marked as a number in its place.
Reconcile(st, l, r) ==
  CASE l.sec # r.sec /\ l.sec # NUMBER /\ r.sec # NUMBER ->
         [l |-> MakeAbs(st, l), r |-> MakeAbs(st, r)]
    [] l.sec # r.sec /\ r.sec = NUMBER ->
         [l |-> [l EXCEPT !.sec = NUMBER], r |-> [r EXCEPT !.sec = l.sec]]
    [] OTHER -> [l |-> l, r |-> r]

-----------------------------------------------------------------------------
(* What expressions read of the engine.                                    *)

IsOutput(s) == s.t = "output"

\* The first output of a set from statement `from` on, or NoOut.
FirstOutput(st, from, wanted) ==
  LET stmts == ScriptOf(st).stmts
      found == {n \in DOMAIN stmts : n >= from /\ IsOutput(stmts[n]) /\ stmts[n].out \in wanted}
  IN IF found = {} THEN NoOut ELSE stmts[CHOOSE n \in found : \A m \in found : n <= m].out

\* The statement after the last output laid out.
AfterLast(st) ==
  IF st.last = NoOut THEN 1
  ELSE 1 + CHOOSE n \in DOMAIN ScriptOf(st).stmts :
             IsOutput(ScriptOf(st).stmts[n]) /\ ScriptOf(st).stmts[n].out = st.last

EnabledOuts(st) == {i \in DOMAIN st.outs : Stmt(st, i).enabled}

OutputByName(st, name) ==
  IF name = "NEXT_SECTION"
  THEN FirstOutput(st, AfterLast(st), {i \in EnabledOuts(st) : st.outs[i].exists})
  ELSE FirstOutput(st, 1, {i \in EnabledOuts(st) : Stmt(st, i).name = name})

Undefined == [kind |-> "undefined", id |-> 0, out |-> NoOut, value |-> 0]

DefOf(st, name) ==
  IF name \in DOMAIN ScriptOf(st).defs THEN ScriptOf(st).defs[name] ELSE Undefined

\* What is not known yet is 0, until the final pass, where it is an error.
Unknown(st, what) == IF st.final THEN Fail(st, what) ELSE Ok(st, Absolute(0))

\* A definition in the inputs: in a section that is placed, an absolute
\* value, or the start or stop of a section.
InputSymbol(st, def) ==
  CASE def.kind = "section" /\ def.out # NoOut ->
         Ok(st, Value(st.offsets[def.id] + def.value, def.out))
    [] def.kind = "section" /\ def.out = NoOut -> Unknown(st, "unresolvable symbol")
    [] def.kind = "absolute" -> Ok(st, Absolute(def.value))
    [] def.kind \in {"start", "stop"} ->
         Ok(st, IF def.out = NoOut THEN Absolute(0)
                ELSE Value(IF def.kind = "stop" THEN st.outs[def.out].size ELSE 0, def.out))
    [] def.kind = "other" -> Ok(st, Absolute(0))
    [] def.kind = "undefined" -> Unknown(st, "undefined symbol")

Assigned(st, name) == name \in DOMAIN st.syms /\ st.syms[name].set

\* A name has the value of its last assignment, this pass's or the pass
\* before's; else that of its definition in the inputs.
SymbolValue(st, name) ==
  IF Assigned(st, name) THEN Ok(st, st.syms[name].v) ELSE InputSymbol(st, DefOf(st, name))

\* In an expression an absolute symbol is a number where numbers take the
\* section of the other operand.
SymbolOperand(st, name) ==
  LET r == SymbolValue(st, name)
  IN IF r.v.sec = ABSOLUTE /\ ~OutsideInsane(st) THEN [r EXCEPT !.v.sec = NUMBER] ELSE r

\* DEFINED is true of an assignment only once this pass has made it.
IsDefined(st, name) ==
  \/ Assigned(st, name) /\ st.syms[name].pass = st.pass
  \/ DefOf(st, name).kind # "undefined"

\* SIZEOF and ALIGNOF, also of a section that does not exist.
SectionAttribute(st, op, name) ==
  LET out == OutputByName(st, name)
      o == st.outs[out]
  IN CASE out # NoOut ->
            Ok(st, Number(IF ~o.exists THEN 0
                          ELSE IF op = "sizeof" THEN o.size ELSE MaxOf(o.align, 1)))
       [] out = NoOut /\ name = "NEXT_SECTION" -> Ok(st, Number(IF op = "sizeof" THEN 0 ELSE 1))
       [] out = NoOut /\ name # "NEXT_SECTION" ->
            IF st.final THEN Fail(st, "undefined section") ELSE Ok(st, Number(0))

\* A region by its name or through aliases; 0 when there is none.
RegionNamed(st, name) ==
  LET sc == ScriptOf(st)
      known == {sc.regions[r].name : r \in DOMAIN sc.regions}
      Follow(n, ignored) == IF n \in known \/ n \notin DOMAIN sc.aliases THEN n ELSE sc.aliases[n]
      real == FoldLeft(Follow, name, [k \in 1 .. Cardinality(DOMAIN sc.aliases) |-> k])
  IN IF real \notin known THEN 0
     ELSE CHOOSE r \in DOMAIN sc.regions : /\ sc.regions[r].name = real
                                           /\ \A q \in 1 .. r - 1 : sc.regions[q].name # real

\* DATA_SEGMENT_ALIGN: the start of the data segment, first guessed, then as
\* the adjustment decided.
DataSegmentAlign(st, maxPage, commonPage) ==
  LET up == AlignN(st.dot, maxPage)
      guess == up + (IF st.relro THEN 0 ELSE st.dot & (maxPage - 1))
      seen == [st.seg EXCEPT !.phase = "alignSeen", !.base = guess % AddrLimit,
                             !.commonPage = commonPage, !.maxPage = maxPage, !.relroEnd = 0]
  IN CASE st.cur # NoOut -> Fail(st, "DATA_SEGMENT_ALIGN inside an output section")
       [] st.cur = NoOut /\ st.seg.phase = "relroAdjust" -> Ok(st, Absolute(st.seg.base))
       [] st.cur = NoOut /\ st.seg.phase = "adjust" ->
            Ok(st, Absolute(up + (IF commonPage < maxPage
                                  THEN (st.dot + commonPage - 1) & (maxPage - commonPage) ELSE 0)))
       [] st.cur = NoOut /\ st.seg.phase = "none" -> Ok([st EXCEPT !.seg = seen], Absolute(guess))
       [] OTHER -> Ok(st, Absolute(guess))

\* DATA_SEGMENT_RELRO_END: where the RELRO sections end; while adjusting, on
\* a page boundary.
DataSegmentRelroEnd(st, offset, value) ==
  LET moves == st.seg.phase \in {"alignSeen", "relroAdjust"}
      end == IF moves THEN (value + offset) % AddrLimit ELSE st.seg.relroEnd
      page == MaxOf(st.seg.maxPage, 1)
      bumped == st.seg.phase = "relroAdjust" /\ end & (page - 1) # 0
      relroEnd == IF bumped THEN AlignN(end, page) ELSE end
      phase == IF st.seg.phase = "alignSeen" THEN "relroSeen" ELSE st.seg.phase
  IN [st |-> [st EXCEPT !.seg = [@ EXCEPT !.relroOffset = offset, !.relroEnd = relroEnd,
                                          !.phase = phase]],
      val |-> IF bumped THEN relroEnd - offset ELSE value]

DataSegmentEnd(st, value) ==
  IF st.seg.phase \notin {"alignSeen", "relroSeen"} THEN st
  ELSE [st EXCEPT !.seg = [@ EXCEPT !.phase = "endSeen", !.end = value]]

-----------------------------------------------------------------------------
(* The operators.                                                          *)

Signed(n) == IF n >= AddrLimit \div 2 THEN n - AddrLimit ELSE n
Magnitude(n) == IF n < 0 THEN -n ELSE n
\* Division of signed numbers, towards zero.
Quotient(l, r) ==
  LET q == Magnitude(Signed(l)) \div Magnitude(Signed(r))
  IN IF (Signed(l) < 0) # (Signed(r) < 0) THEN -q ELSE q

Comparisons == {"<", ">", "<=", ">=", "==", "!="}

Compare(op, l, r) ==
  \/ op = "<" /\ l < r
  \/ op = ">" /\ l > r
  \/ op = "<=" /\ l <= r
  \/ op = ">=" /\ l >= r
  \/ op = "==" /\ l = r
  \/ op = "!=" /\ l # r

\* Shift counts are taken modulo the width.
Arithmetic(op, l, r) ==
  CASE op = "+" -> l + r
    [] op = "-" -> l - r
    [] op = "*" -> l * r
    [] op = "<<" -> l * 2 ^ (r % AddrBits)
    [] op = ">>" -> l \div 2 ^ (r % AddrBits)
    [] op = "&" -> l & r
    [] op = "|" -> l | r
    [] op = "^" -> l ^^ r
    [] op = "/" -> Quotient(l, r)
    [] op = "%" -> Signed(l) - Signed(r) * Quotient(l, r)

Binaries == Comparisons \cup {"+", "-", "*", "<<", ">>", "&", "|", "^", "/", "%"}

\* Operands of one section give a number (outside output sections, an
\* absolute value): a difference of two places in a section is a distance.
Binary(st, op, l, r) ==
  LET c == Reconcile(st, l, r)
      sec == IF c.l.sec # c.r.sec THEN c.r.sec
             ELSE IF OutsideInsane(st) THEN ABSOLUTE ELSE NUMBER
  IN IF op \in Comparisons THEN Ok(st, Truth(Compare(op, c.l.val, c.r.val)))
     ELSE IF op \in {"/", "%"} /\ c.r.val = 0 THEN Fail(st, "division by zero")
     ELSE Ok(st, [Value(Arithmetic(op, c.l.val, c.r.val), sec) EXCEPT !.dot = c.l.dot \/ c.r.dot])

Unary(op, v) ==
  [v EXCEPT !.val = CASE op = "neg" -> (-v.val) % AddrLimit
                      [] op = "!" -> IF v.val = 0 THEN 1 ELSE 0
                      [] op = "~" -> AddrLimit - 1 - v.val]

\* ALIGN(value, align), MAX and MIN.
Combine(st, op, l, r) ==
  LET c == Reconcile(st, l, r)
      val == CASE op = "alignExpr" -> AlignN(c.l.val, c.r.val)
               [] op = "max" -> MaxOf(c.l.val, c.r.val)
               [] op = "min" -> IF c.l.val <= c.r.val THEN c.l.val ELSE c.r.val
  IN Ok(st, [Value(val, c.r.sec) EXCEPT !.dot = c.l.dot \/ c.r.dot])

\* The DATA_SEGMENT functions.
DataSegment(st, op, vs) ==
  LET c == Reconcile(st, vs[1], vs[2])
      d == Reconcile(st, vs[2], vs[1])
      end == DataSegmentRelroEnd(st, d.r.val, d.l.val)
  IN CASE op = "dataAlign" -> DataSegmentAlign(st, c.l.val, c.r.val)
       [] op = "relroEnd" -> Ok(end.st, Value(end.val, d.r.sec))
       [] op = "dataEnd" -> Ok(DataSegmentEnd(st, vs[1].val), vs[1])

SegmentStart(st, name, default) ==
  IF name \in DOMAIN ScriptOf(st).segmentStarts THEN ScriptOf(st).segmentStarts[name] ELSE default

\* ADDR, LOADADDR, ORIGIN and LENGTH.
Place(st, op, name) ==
  LET out == OutputByName(st, name)
      r == RegionNamed(st, name)
  IN CASE op \in {"addr", "loadaddr"} /\ out = NoOut -> Fail(st, "undefined section")
       [] op = "addr" /\ out # NoOut -> Ok(st, Value(0, out))
       [] op = "loadaddr" /\ out # NoOut -> Ok(st, Absolute(st.outs[out].lma))
       [] op \in {"origin", "length"} /\ r = 0 -> Fail(st, "undefined region")
       [] op = "origin" /\ r # 0 -> Ok(st, RelFromAbs(st, st.regions[r].origin))
       [] op = "length" /\ r # 0 -> Ok(st, Number(st.regions[r].length))

AssertionFailed(st) == IF st.final THEN [st EXCEPT !.errors = @ \cup {"assertion"}] ELSE st

\* An operation on the values of its operands.
Builtin(st, e, vs) ==
  CASE e.op = "num" -> Ok(st, Value(e.num, IF OutsideInsane(st) THEN ABSOLUTE ELSE NUMBER))
    [] e.op = "sym" -> SymbolOperand(st, e.name)
    [] e.op = "dot" -> Ok(st, RelFromAbs(st, st.dot))
    [] e.op \in Binaries -> Binary(st, e.op, vs[1], vs[2])
    [] e.op \in {"neg", "!", "~"} -> Ok(st, Unary(e.op, vs[1]))
    [] e.op = "absolute" -> Ok(st, MakeAbs(st, vs[1]))
    [] e.op = "align" -> Ok(st, RelFromAbs(st, AlignN(st.dot, vs[1].val)))
    [] e.op = "next" -> Ok(st, Absolute(AlignN(st.dot, AddressOf(st, vs[1]))))
    [] e.op = "log2ceil" -> Ok(st, Number(Log2Ceil(vs[1].val)))
    [] e.op \in {"alignExpr", "max", "min"} -> Combine(st, e.op, vs[1], vs[2])
    [] e.op \in {"dataAlign", "relroEnd", "dataEnd"} -> DataSegment(st, e.op, vs)
    [] e.op = "segmentStart" -> Ok(st, RelFromAbs(st, SegmentStart(st, e.name, vs[1].val)))
    [] e.op = "defined" -> Ok(st, Truth(IsDefined(st, e.name)))
    [] e.op \in {"addr", "loadaddr", "origin", "length"} -> Place(st, e.op, e.name)
    [] e.op \in {"sizeof", "alignof"} -> SectionAttribute(st, e.op, e.name)
    [] e.op = "headers" -> Ok(st, Number(st.headers))
    [] e.op = "maxpage" -> Ok(st, Number(Page))
    [] e.op = "commonpage" -> Ok(st, Number(ScriptOf(st).commonPage))
    [] e.op = "assert" -> Ok(IF vs[1].val = 0 THEN AssertionFailed(st) ELSE st, vs[1])

\* The operators that evaluate only some of their operands, and which they
\* evaluate after the first.
Lazy(e) == e.op \in {"?", "&&", "||"}

Chosen(e, first) ==
  CASE e.op = "?" -> <<e.args[IF first # 0 THEN 2 ELSE 3]>>
    [] e.op = "&&" -> IF first = 0 THEN <<>> ELSE <<e.args[2]>>
    [] e.op = "||" -> IF first # 0 THEN <<>> ELSE <<e.args[2]>>

Operands(e) == IF Lazy(e) THEN <<e.args[1]>> ELSE e.args

RECURSIVE Eval(_, _)

\* Operands in order, up to the first that fails.
EvalAll(acc, args) ==
  FoldLeft(LAMBDA a, e : IF Failed(a) THEN a
                         ELSE LET r == Eval(a.st, e) IN [st |-> r.st, vs |-> Append(a.vs, r.v)],
           acc, args)

EvalChosen(e, first) ==
  IF Failed(first) \/ ~Lazy(e) THEN first ELSE EvalAll(first, Chosen(e, first.vs[1].val))

Apply(e, all) ==
  CASE Failed(all) -> Ok(all.st, Number(0))
    [] ~Failed(all) /\ ~Lazy(e) -> Builtin(all.st, e, all.vs)
    [] ~Failed(all) /\ e.op = "?" -> Ok(all.st, all.vs[2])
    [] ~Failed(all) /\ e.op \in {"&&", "||"} -> Ok(all.st, Truth(Last(all.vs).val # 0))

Eval(st, e) == Apply(e, EvalChosen(e, EvalAll([st |-> st, vs |-> <<>>], Operands(e))))

-----------------------------------------------------------------------------
(* Assignments.                                                            *)

\* A compound assignment reads its target first.
AssignedValue(st, a) ==
  LET With(current, r) == IF a.op = "" THEN r
                          ELSE IF Failed(current) THEN current
                          ELSE IF Failed(r) THEN r ELSE Binary(r.st, a.op, current.v, r.v)
  IN With(IF a.target = "." THEN Ok(st, RelFromAbs(st, st.dot)) ELSE SymbolOperand(st, a.target),
          Eval(st, a.expr))

\* The value r for a symbol: a number assigned inside an output section is
\* relative to it.
ForSymbol(st, r) ==
  IF r.v.sec # NUMBER THEN r
  ELSE [r EXCEPT !.v.sec = IF st.cur # NoOut THEN st.cur ELSE ABSOLUTE]

\* The value r for the location counter, which inside an output section only
\* moves forwards.
ForDot(st, r) ==
  LET v == IF r.v.sec = NUMBER /\ st.cur # NoOut THEN [r.v EXCEPT !.sec = st.cur] ELSE r.v
      next == AddressOf(st, v)
  IN IF Failed(r) THEN r
     ELSE IF st.cur # NoOut /\ next < st.dot THEN Fail(r.st, "dot moved backwards")
     ELSE Ok(r.st, Absolute(next))
=============================================================================
