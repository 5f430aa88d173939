------------------------------ MODULE Evaluator ------------------------------
(***************************************************************************)
(* The evaluator of system-sexp (interpreter.c 37-191, intrinsics.h): one  *)
(* dispatcher evaluates the sexps of a program in turn.  The C functions   *)
(* call each other; calls is their stack.  Most calls get a node of the    *)
(* call tree, which takes an arena of the pool and holds the symbols bound *)
(* there.  A symbol is looked up from a node towards the root.             *)
(*                                                                         *)
(* call_results of a node are the values its function has so far (vals of  *)
(* the stack frame).  No node is entered twice, so that the tests for a    *)
(* result that is already there fail, but for one that reads a result of a *)
(* node that has none (ExecMacro).                                         *)
(*                                                                         *)
(* What reads gives is a sexp of the stream.  Failed assertions, abort()   *)
(* and accesses through NULL or to a closed stream stop the program.       *)
(***************************************************************************)
EXTENDS Sexps

CONSTANTS
  Programs,            \* the programs to evaluate, sequences of sexps
  Dup(_),              \* the copy of a sexp, sexp_dup of Intrinsics
  Compute(_, _),       \* what a primitive makes of the values of its arguments, Computed of Intrinsics
  Expand(_, _)         \* a macro with the arguments of a call put in, Expansion of Intrinsics

VARIABLES
  program,      \* what has been read of the program
  in_stream,    \* the stream that is read: Stream(0) is the program's source
  streams,      \* what is left of the others, in the order in which they were opened
  nodes,        \* the call tree: node |-> its parent, sexp, symbols, arena
  total,        \* number of arenas of the pool
  available,    \* the stack of unused arenas
  cells,        \* the pointers that p_adrof gave out and whose memory has not been given out again
  calls,        \* the C functions in progress, innermost first
  aborted,      \* the process has stopped
  results,      \* auxiliary: the value of each sexp evaluated
  abandoned     \* auxiliary: the nodes that nothing destroys: p_slice_eval leaves its own behind, and
                \* ExecMacro there, if the slice is empty, the one of the macro

input == <<program, in_stream, streams>>
vars == <<program, in_stream, streams, nodes, total, available, cells, calls, aborted, results, abandoned>>

-----------------------------------------------------------------------------
(* The call tree *)

Root == 1

\* The first node from p on, towards the root, that is not a call of eval; 0 if the walk leaves the
\* tree, or meets a node whose sexp is an atom, for which sexp_num_children stops.
SkipEval_never(p) == p
SkipEval(p) ==
  LET skip[q \in DOMAIN nodes \cup {0}] ==
        CASE q = 0                                  -> 0
          [] ~IsList(nodes[q].called)               -> 0
          [] ~Call(nodes[q].called)                 -> q
          [] nodes[q].called[2][1] = Sym(LPS_EVAL)    -> skip[nodes[q].parent]
          [] OTHER                                  -> q
  IN skip[p]

\* parent_ctx: a node, 0 for NULL, Lost if it does not return.
Lost == -1
parent_ctx(n) == LET p == SkipEval(nodes[n].parent) IN IF p = 0 THEN Lost ELSE nodes[p].parent

\* parent_ctx, again and again.
Ancestor(node, layers) ==
  LET up[i \in 0..layers] == CASE i = 0                        -> node
                               [] up[i-1] \notin DOMAIN nodes  -> Lost
                               [] OTHER                        -> parent_ctx(up[i-1])
  IN up[layers]

\* calltree_get_symbol_val_ref_walk_up: the node where a symbol, seen from another one, is bound, or 0.
Home(from, sym) ==
  LET seen[n \in DOMAIN nodes \cup {0}] ==
        IF n = 0 THEN 0
        ELSE LET st == nodes[n].symboltable
             IN  CASE sym \in DOMAIN st    -> n
                   [] LPS_ENV \in DOMAIN st -> IF IsNode(st[LPS_ENV]) /\ st[LPS_ENV][2][2] \in DOMAIN nodes
                                              THEN seen[st[LPS_ENV][2][2]] ELSE 0
                   [] OTHER                -> seen[nodes[n].parent]
  IN seen[from]

\* The value there.
walk_up(from, sym) == LET n == Home(from, sym) IN IF n = 0 THEN Abort ELSE nodes[n].symboltable[sym]

\* calltree_child_at: tree gets a node below parent, with an arena of the pool (arena_pool_get).
NewNode == 1 + Max(DOMAIN nodes)
GivenOut == IF available = <<>> THEN total + 1 ELSE Last(available)
WithChild(tree, parent, called) ==
  [n \in DOMAIN tree \cup {NewNode} |->
     IF n = NewNode THEN [parent |-> parent, called |-> called, symboltable |-> NoSymbols, arena |-> GivenOut]
     ELSE tree[n]]
calltree_child_at_total_kept(tree, parent, called) ==
  /\ nodes' = WithChild(tree, parent, called)
  /\ available' = IF available = <<>> THEN <<>> ELSE Front(available)
  /\ UNCHANGED total
calltree_child_at_unpopped(tree, parent, called) ==
  /\ nodes' = WithChild(tree, parent, called)
  /\ total' = IF available = <<>> THEN total + 1 ELSE total
  /\ UNCHANGED available
calltree_child_at(tree, parent, called) ==
  /\ nodes' = WithChild(tree, parent, called)
  /\ IF available = <<>>
     THEN total' = total + 1 /\ UNCHANGED available
     ELSE available' = Front(available) /\ UNCHANGED total

-----------------------------------------------------------------------------
(* Calls and returns of the C functions *)

\* fn runs at a node, with argv.  vals are the values it has, in the order in which it gets them.  own
\* says that its caller destroys the node when it returns.  result is a local of p_while; src is the
\* file of p_load, and prev_src the stream that it has put aside.
Frame(fn, node, args, own) ==
  [fn |-> fn, at |-> node, argv |-> args, own |-> own, vals |-> <<>>, result |-> Nil,
   src |-> Nil, prev_src |-> Nil]

\* interpreter_set_stream
Source == Stream(0)

Init ==
  /\ program = <<>>
  /\ in_stream = Source
  /\ streams = StandardStreams
  /\ nodes = [n \in {Root} |-> [parent |-> 0, called |-> Nil, symboltable |-> RootSymbols, arena |-> 1]]
  /\ total = 1
  /\ available = <<>>
  /\ cells = {}
  /\ calls = <<>>
  /\ aborted = FALSE
  /\ results = <<>>
  /\ abandoned = {}

argv == Head(calls).argv
vals == Head(calls).vals
at   == Head(calls).at
Runs(fn) == ~aborted /\ calls # <<>> /\ Head(calls).fn = fn /\ ArgcOK(fn, Len(argv))

\* A function calls another one at a new node below its own, and comes back to it.
Enter_not_destroyed(parent, called, fn, args) ==
  /\ calltree_child_at(nodes, parent, called)
  /\ calls' = <<Frame(fn, NewNode, args, FALSE)>> \o calls
  /\ UNCHANGED <<input, aborted, results, abandoned>>
Enter(parent, called, fn, args) ==
  /\ calltree_child_at(nodes, parent, called)
  /\ calls' = <<Frame(fn, NewNode, args, TRUE)>> \o calls
  /\ UNCHANGED <<input, aborted, results, abandoned>>

\* What an arena of the pool holds is lost when it is given out again, but for what p_adrof has put there if the
\* node is one of the EVAL macro: it writes no more there than the node before it had written before p_adrof.
Cells(arena) == {c \in cells : c[2][2] = arena}
CallAt(parent, called, fn, args) == Enter(parent, called, fn, args) /\ cells' = cells \ Cells(GivenOut)

\* The EVAL macro, for the i-th argument.
EVAL(i) == Enter(at, argv[i], "p-exec", <<argv[i]>>) /\ UNCHANGED cells

\* The function changes its own locals.
Locally(frame) ==
  /\ calls' = <<frame>> \o Tail(calls)
  /\ UNCHANGED <<nodes, total, available, cells, aborted, results, abandoned>>

Stop ==
  /\ aborted' = TRUE
  /\ UNCHANGED <<input, nodes, total, available, cells, calls, results, abandoned>>

\* The caller of the function gets val; that of the last one is dispatcher_loop.
Answer(val) ==
  LET rest == Tail(calls)
  IN  IF rest = <<>>
      THEN calls' = <<>> /\ results' = Append(results, val)
      ELSE /\ calls' = <<[rest[1] EXCEPT !.vals = Append(@, val)]>> \o Tail(rest)
           /\ UNCHANGED results

\* The function returns val to its caller, which destroys its node; tree is the call tree it
\* leaves, and kept the cells.
ReturnKeeping(kept, tree, val) ==
  LET frame == Head(calls)
  IN  /\ IF frame.own
         THEN /\ nodes' = [n \in DOMAIN tree \ {frame.at} |-> tree[n]]
              /\ available' = Append(available, tree[frame.at].arena)
         ELSE nodes' = tree /\ UNCHANGED available
      /\ Answer(val)
      /\ cells' = kept
      /\ UNCHANGED <<total, aborted, abandoned>>

ReturnLeaving(tree, val) == ReturnKeeping(cells, tree, val)

Return(val) == IF val = Abort THEN Stop ELSE ReturnLeaving(nodes, val) /\ UNCHANGED input

\* The programs that begin like this.  Null ends what has been read of a program.
Continuations == {p \in Programs : Len(p) > Len(program) /\ SubSeq(p, 1, Len(program)) = program}
Ended == program # <<>> /\ Last(program) = Null

\* What reads may give, with Null for the end.
Open == IsStream(in_stream) /\ in_stream \notin {Stream(k) : k \in {j \in DOMAIN streams : streams[j] = Closed}}
NextSexps ==
  IF in_stream = Source
  THEN {p[Len(program) + 1] : p \in Continuations} \cup (IF program \in Programs \/ Ended THEN {Null} ELSE {})
  ELSE LET q == streams[in_stream[2][2]] IN {IF q = <<>> THEN Null ELSE Head(q)}

\* reads gives s.
reads(s) ==
  IF in_stream = Source
  THEN program' = (IF Ended THEN program ELSE Append(program, s)) /\ UNCHANGED <<in_stream, streams>>
  ELSE /\ streams' = [streams EXCEPT ![in_stream[2][2]] = IF s = Null THEN @ ELSE Tail(@)]
       /\ UNCHANGED <<program, in_stream>>

\* dispatcher_loop: the next sexp becomes a child of the root.
ReadSexp ==
  /\ ~aborted /\ calls = <<>> /\ Open
  /\ \E next \in NextSexps \ {Null} :
       /\ reads(next)
       /\ calltree_child_at([nodes EXCEPT ![Root].called = List(Append(@[2], next))], Root, next)
       /\ calls' = <<Frame("eval", NewNode, <<next>>, TRUE)>>
  /\ cells' = cells \ Cells(GivenOut)
  /\ UNCHANGED <<aborted, results, abandoned>>

ReadStops == ~aborted /\ calls = <<>> /\ ~Open /\ Stop

\* eval: p_exec of (eval S), a list in the arena of the node.
eval ==
  /\ Runs("eval")
  /\ \/ /\ vals = <<>>
        /\ LET with_eval == List(<<Sym(LPS_EVAL), argv[1]>>) IN
             /\ Enter(at, with_eval, "p-exec", <<with_eval>>)
             /\ cells' = cells \ (Cells(GivenOut) \cup Cells(nodes[at].arena))
     \/ vals # <<>> /\ Return(vals[1])

-----------------------------------------------------------------------------
(* p_exec *)

\* What the head of a call stands for: a primitive itself, or the value of the symbol.
Called(s) ==
  CASE ~IsName(s[2][1])              -> Abort
    [] s[2][1][2] \in Primitives     -> Sym(s[2][1][2])
    [] OTHER                         -> walk_up(at, s[2][1][2])

ExecAtom ==
  /\ Runs("p-exec") /\ vals = <<>> /\ ~Call(argv[1])
  /\ Return(IF IsSym(argv[1]) /\ argv[1][2] \notin Primitives THEN walk_up(at, argv[1][2]) ELSE argv[1])

ExecPrimitive ==
  /\ Runs("p-exec") /\ vals = <<>> /\ Call(argv[1])
  /\ LET called == Called(argv[1]) IN
       /\ IsSym(called) /\ called[2] \in Primitives
       /\ CallAt(at, argv[1], called[2], Tail(argv[1][2]))

\* p_slice_eval gives the node of its call as many call_results as the slice has sexps.
NoCallResults == ~Head(calls).own /\ Len(argv[1][2]) = 1

\* The function returns val with the node that it has made for a call: nothing destroys that.
ReturnBefore(called, val) ==
  /\ calltree_child_at(nodes, at, called)
  /\ abandoned' = abandoned \cup {NewNode}
  /\ cells' = cells \ Cells(GivenOut)
  /\ Answer(val)
  /\ UNCHANGED <<input, aborted>>

\* A node without call_results has the next word of its arena at call_results[0], where p_exec then puts the
\* expansion: that is taken for the result.
ExecMacro ==
  /\ Runs("p-exec") /\ vals = <<>> /\ Call(argv[1])
  /\ LET called == Called(argv[1])
         body   == Expand(called, Tail(argv[1][2]))
     IN  /\ IsMacro(called)
         /\ \/ NoCallResults /\ ReturnBefore(body, body)
            \/ ~NoCallResults /\ CallAt(at, body, "p-exec", <<body>>)

ExecStops ==
  /\ Runs("p-exec") /\ vals = <<>> /\ Call(argv[1])
  /\ LET called == Called(argv[1]) IN
       /\ ~IsMacro(called)
       /\ ~(IsSym(called) /\ called[2] \in Primitives)
  /\ Stop

ExecReturn == Runs("p-exec") /\ vals # <<>> /\ Return(Dup(vals[1]))

p_exec == ExecAtom \/ ExecPrimitive \/ ExecMacro \/ ExecStops \/ ExecReturn

-----------------------------------------------------------------------------
(* The primitives.  Each asserts its argc first. *)

WrongArgc ==
  /\ ~aborted /\ calls # <<>>
  /\ ~ArgcOK(Head(calls).fn, Len(argv))
  /\ Stop

calltree_get_symbol_val_ref_no_walk(n, sym) ==
  IF sym \in DOMAIN nodes[n].symboltable THEN Slot(n, sym) ELSE NullPtr

\* The sexp that a pointer is to.  What is read of memory that has been given out again is not modelled, and a
\* table that grows takes the pointers into it along: in the code they may dangle then, as in SymbolTable.
Pointee(ptr) ==
  CASE IsSlot(ptr) -> IF ptr[2][2] \in DOMAIN nodes /\ ptr[2][3] \in DOMAIN nodes[ptr[2][2]].symboltable
                      THEN nodes[ptr[2][2]].symboltable[ptr[2][3]] ELSE Abort
    [] IsCell(ptr) -> IF ptr \in cells THEN ptr[2][3] ELSE Abort
    [] OTHER       -> p_deref(ptr)

\* The value of a primitive, from those of its arguments.
Value(fn, v) ==
  CASE fn = "p-deref" -> Pointee(v[1])
    [] fn = "p-get" ->
         IF ~IsName(v[1]) THEN Abort
         ELSE LET n == Home(at, v[1][2]) IN IF n = 0 THEN NullPtr ELSE Slot(n, v[1][2])
    [] fn = "p-st-get" ->
         IF IsNode(v[1]) /\ v[1][2][2] \in DOMAIN nodes /\ IsName(v[2])
         THEN calltree_get_symbol_val_ref_no_walk(v[1][2][2], v[2][2]) ELSE Abort
    [] OTHER -> Compute(fn, v)

\* EVAL of every argument, then the value.
strict ==
  \E fn \in Strict :
    /\ Runs(fn)
    /\ \/ Len(vals) < Arity(fn) /\ EVAL(Len(vals) + 1)
       \/ Len(vals) = Arity(fn) /\ Return(Value(fn, vals))

p_quote == Runs("p-quote") /\ Return(argv[1])

\* Evaluates the arguments after the first one in turn.
p_macrobody ==
  /\ Runs("p-macrobody")
  /\ \/ /\ Len(vals) + 1 < Len(argv)
        /\ LET next == argv[Len(vals) + 2] IN CallAt(at, next, "p-exec", <<next>>)
     \/ Len(vals) + 1 = Len(argv) /\ Return(Last(vals))

\* Evaluates the first argument, and its value again for every other argument.
p_multi_eval ==
  /\ Runs("p-multi-eval")
  /\ \/ vals = <<>> /\ EVAL(1)
     \/ Len(vals) \in 1..(Len(argv) - 1) /\ CallAt(at, argv[Len(vals) + 1], "p-exec", <<Last(vals)>>)
     \/ Len(vals) = Len(argv) /\ Return(Last(vals))

\* Calls its first argument with the length and the array that the others give.  Nothing destroys the
\* node of that call.
p_slice_eval ==
  /\ Runs("p-slice-eval")
  /\ \/ Len(vals) < 2 /\ EVAL(Len(vals) + 2)
     \/ /\ Len(vals) = 2
        /\ IF IsNum(vals[1]) /\ IsArray(vals[2], vals[1][2])
           THEN LET to_call == List(<<argv[1]>> \o Array(vals[2], vals[1][2]))
                IN  /\ calltree_child_at(nodes, at, to_call)
                    /\ calls' = <<Frame("p-exec", NewNode, <<to_call>>, FALSE)>> \o calls
                    /\ abandoned' = abandoned \cup {NewNode}
                    /\ cells' = cells \ Cells(GivenOut)
                    /\ UNCHANGED <<input, aborted, results>>
           ELSE Stop
     \/ Len(vals) = 3 /\ Return(vals[3])

\* The call tree with a symbol set, or removed, in the table of a node.  symboltable_remove leaves the
\* binding, since it hands the key to ht_delete; what that does to the table besides is in SymbolTable.
calltree_set_symbol_val(n, sym, val) == [nodes EXCEPT ![n].symboltable = (sym :> val) @@ @]
calltree_remove_symbol_val(n, sym) == nodes

p_st_set ==
  /\ Runs("p-st-set")
  /\ \/ Len(vals) < 3 /\ EVAL(Len(vals) + 1)
     \/ /\ Len(vals) = 3
        /\ IF IsNode(vals[1]) /\ vals[1][2][2] \in DOMAIN nodes /\ IsName(vals[2])
           THEN /\ ReturnLeaving(calltree_set_symbol_val(vals[1][2][2], vals[2][2], vals[3]), Nil)
                /\ UNCHANGED input
           ELSE Stop

p_st_remove ==
  /\ Runs("p-st-remove")
  /\ \/ Len(vals) < 2 /\ EVAL(Len(vals) + 1)
     \/ /\ Len(vals) = 2
        /\ IF IsNode(vals[1]) /\ vals[1][2][2] \in DOMAIN nodes /\ IsName(vals[2])
           THEN ReturnLeaving(calltree_remove_symbol_val(vals[1][2][2], vals[2][2]), Nil) /\ UNCHANGED input
           ELSE Stop

\* A pointer to a sexp, which is put into the arena of the node of p_exec: that is returned before the caller
\* of p_adrof can use it.
p_adrof ==
  /\ Runs("p-adrof")
  /\ \/ vals = <<>> /\ EVAL(1)
     \/ /\ vals # <<>>
        /\ LET arena  == nodes[nodes[at].parent].arena
               result == Cell(arena, vals[1])
           IN  ReturnKeeping((cells \ Cells(arena)) \cup {result}, nodes, result)
        /\ UNCHANGED input

\* Writes a sexp to a symbol.  Other sizes, and other places to write to, are not modelled.
p_memcpy ==
  /\ Runs("p-memcpy")
  /\ \/ Len(vals) < 3 /\ EVAL(Len(vals) + 1)
     \/ /\ Len(vals) = 3
        /\ LET dest == vals[1] IN
             IF /\ IsSlot(dest) /\ Pointee(dest) # Abort
                /\ IsPtr(vals[2]) /\ Pointee(vals[2]) # Abort
                /\ IsNum(vals[3]) /\ vals[3][2] = p_sexp_size[2]
             THEN /\ ReturnLeaving([nodes EXCEPT ![dest[2][2]].symboltable[dest[2][3]] = Pointee(vals[2])], dest)
                  /\ UNCHANGED input
             ELSE Stop

p_scope ==
  /\ Runs("p-scope")
  /\ IF parent_ctx(at) = Lost THEN Stop ELSE Return(Node(parent_ctx(at)))

p_parent_scope ==
  /\ Runs("p-parent-scope")
  /\ \/ Len(vals) < 2 /\ EVAL(Len(vals) + 1)
     \/ /\ Len(vals) = 2
        /\ IF IsNode(vals[1]) /\ IsNum(vals[2]) /\ Ancestor(vals[1][2][2], vals[2][2]) # Lost
           THEN Return(Node(Ancestor(vals[1][2][2], vals[2][2])))
           ELSE Stop

p_root_scope == Runs("p-root-scope") /\ Return(Node(Root))

p_if ==
  /\ Runs("p-if")
  /\ \/ vals = <<>> /\ EVAL(1)
     \/ /\ Len(vals) = 1
        /\ LET branch == IF TrueInt(vals[1]) THEN argv[2] ELSE IF Len(argv) = 3 THEN argv[3] ELSE Nil
           IN CallAt(at, argv[1], "p-exec", <<branch>>)
     \/ Len(vals) = 2 /\ Return(Dup(vals[2]))

\* vals are those of the current iteration.
p_while ==
  /\ Runs("p-while")
  /\ \/ vals = <<>> /\ EVAL(1)
     \/ vals # <<>> /\ ~True(vals[1]) /\ Return(Dup(Head(calls).result))
     \/ vals # <<>> /\ True(vals[1]) /\ Len(vals) < Len(argv) /\ EVAL(Len(vals) + 1)
     \/ /\ vals # <<>> /\ True(vals[1]) /\ Len(vals) = Len(argv)
        /\ Locally([Head(calls) EXCEPT !.vals = <<>>,
                                       !.result = IF Len(argv) > 1 THEN Last(vals) ELSE @])
        /\ UNCHANGED input

\* p_and and p_or leave the second argument alone when the first one decides.
p_and ==
  /\ Runs("p-and")
  /\ \/ vals = <<>> /\ EVAL(1)
     \/ Len(vals) = 1 /\ ~True(vals[1]) /\ Return(Bint(FALSE))
     \/ Len(vals) = 1 /\ True(vals[1]) /\ EVAL(2)
     \/ Len(vals) = 2 /\ Return(Bint(True(vals[2])))

p_or ==
  /\ Runs("p-or")
  /\ \/ vals = <<>> /\ EVAL(1)
     \/ Len(vals) = 1 /\ True(vals[1]) /\ Return(Bint(TRUE))
     \/ Len(vals) = 1 /\ ~True(vals[1]) /\ EVAL(2)
     \/ Len(vals) = 2 /\ Return(Bint(True(vals[2])))

p_read ==
  /\ Runs("p-read")
  /\ \/ Open /\ (\E s \in NextSexps : reads(s) /\ ReturnLeaving(nodes, s))
     \/ ~Open /\ Stop

p_get_in == Runs("p-get-in") /\ Return(in_stream)

p_set_in ==
  /\ Runs("p-set-in")
  /\ \/ vals = <<>> /\ EVAL(1)
     \/ /\ vals # <<>> /\ IsPtr(vals[1])
        /\ in_stream' = vals[1]
        /\ ReturnLeaving(nodes, in_stream)
        /\ UNCHANGED <<program, streams>>
     \/ vals # <<>> /\ ~IsPtr(vals[1]) /\ Stop

\* fopen of a file that exists, and fclose of a stream that is open.
fopen(name) == streams' = Append(streams, Files[name])
Opening == Stream(Len(streams) + 1)
fclose(stream) == streams' = [streams EXCEPT ![stream[2][2]] = Closed]

\* The mode is "r".
p_fopen ==
  /\ Runs("p-fopen")
  /\ \/ Len(vals) < 2 /\ EVAL(Len(vals) + 1)
     \/ /\ Len(vals) = 2 /\ vals[1][2] \in DOMAIN Files
        /\ fopen(vals[1][2])
        /\ ReturnLeaving(nodes, Opening)
        /\ UNCHANGED <<program, in_stream>>
     \/ Len(vals) = 2 /\ vals[1][2] \notin DOMAIN Files /\ Return(NullPtr)

p_fclose ==
  /\ Runs("p-fclose")
  /\ \/ vals = <<>> /\ EVAL(1)
     \/ /\ vals # <<>> /\ IsStream(vals[1])
        /\ fclose(vals[1])
        /\ ReturnLeaving(nodes, Nil)
        /\ UNCHANGED <<program, in_stream>>
     \/ vals # <<>> /\ ~IsStream(vals[1]) /\ Stop

\* Puts the file in place of the stream, evaluates what is read at parent_ctx, and puts the stream back.
\* The sexps may have set another stream meanwhile: its end is the end then.
LoadOpen ==
  /\ Runs("p-load") /\ Len(vals) = 1 /\ Head(calls).src = Nil
  /\ IF IsName(vals[1]) /\ vals[1][2] \in DOMAIN Files
     THEN /\ fopen(vals[1][2])
          /\ in_stream' = Opening
          /\ Locally([Head(calls) EXCEPT !.src = Opening, !.prev_src = in_stream])
          /\ UNCHANGED program
     ELSE Stop

LoadNext ==
  /\ Runs("p-load") /\ Head(calls).src # Nil
  /\ IF Open /\ parent_ctx(at) \in DOMAIN nodes
     THEN \E cur \in NextSexps \ {Null} :
            /\ reads(cur)
            /\ calls' = <<Frame("eval", parent_ctx(at), <<cur>>, FALSE)>> \o calls
            /\ UNCHANGED <<nodes, total, available, cells, aborted, results, abandoned>>
     ELSE Stop

LoadEnd ==
  /\ Runs("p-load") /\ Head(calls).src # Nil /\ Open /\ Null \in NextSexps
  /\ in_stream' = Head(calls).prev_src
  /\ fclose(Head(calls).src)
  /\ program' = IF in_stream = Source /\ ~Ended THEN Append(program, Null) ELSE program
  /\ ReturnLeaving(nodes, Last(vals))

p_load == (Runs("p-load") /\ vals = <<>> /\ EVAL(1)) \/ LoadOpen \/ LoadNext \/ LoadEnd

\* The end of the program, or of the process.
Finished ==
  /\ aborted \/ (calls = <<>> /\ Open /\ NextSexps = {Null})
  /\ UNCHANGED vars

Next ==
  \/ ReadSexp \/ ReadStops \/ eval \/ p_exec \/ WrongArgc \/ strict \/ p_quote \/ p_macrobody \/ p_multi_eval
  \/ p_slice_eval \/ p_st_set \/ p_st_remove \/ p_adrof \/ p_memcpy \/ p_scope \/ p_parent_scope \/ p_root_scope
  \/ p_if \/ p_while \/ p_and \/ p_or
  \/ p_read \/ p_get_in \/ p_set_in \/ p_fopen \/ p_fclose \/ p_load \/ Finished

Spec == Init /\ [][Next]_vars

-----------------------------------------------------------------------------
(* Properties *)

Live == {calls[i].at : i \in DOMAIN calls}

TypeOK ==
  /\ \A n \in DOMAIN nodes : nodes[n].parent \in Nat /\ nodes[n].arena \in 1..total
  /\ Root \in DOMAIN nodes /\ Live \subseteq DOMAIN nodes
  /\ available \in Seq(1..total)
  /\ aborted \in BOOLEAN
  /\ \A c \in cells : IsCell(c) /\ c[2][2] \in 1..total
  /\ abandoned \subseteq Nat

\* Every arena of the pool has one owner: it is unused, once, or it is the memory of one node.  An arena
\* that is returned twice, or not popped when it is given out, would be shared by two nodes, and the one
\* that ends first would take the other's memory.
ArenasOwned ==
  /\ \A m, n \in DOMAIN nodes : nodes[m].arena = nodes[n].arena => m = n
  /\ \A i, j \in DOMAIN available : available[i] = available[j] => i = j
  /\ ToSet(available) = 1..total \ {nodes[n].arena : n \in DOMAIN nodes}

\* When a sexp of the program has been evaluated, on whatever path through the primitives, all nodes
\* have been destroyed and their arenas returned, but for the one that each p_slice_eval leaves behind and
\* the one of a macro that it calls with an empty slice.
ArenasReturned == calls = <<>> => DOMAIN nodes = {Root} \cup abandoned
==============================================================================
