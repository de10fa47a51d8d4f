-------------------------------- MODULE Nodes --------------------------------
(* The arena of command nodes and what each reduction does to it
   (parser/node_utils.c and reduce_*.c).  The arena is a sequence, a link is an
   index into it and 0 is no link.  A handler takes the arena and the symbols of
   the right-hand side and gives the arena it leaves and the node of the result.  *)
EXTENDS Integers, Sequences

NodeTypes == {"arg", "redir", "command", "pipeline"}

Node(type) ==
    [type |-> type,
     flag |-> "none",    \* the operator of a redirection, the connector before a
                         \* pipeline, or "subshell"
     next |-> 0,         \* next_idx
     head |-> 0,         \* arg_head_idx of a command, command_head_idx of a pipeline
     redirs |-> 0,       \* redir_head_idx
     token |-> 0,        \* the token whose text arena_offset finds
     fd |-> 0]           \* the descriptor of a here-document

Result(ns, n) == [nodes |-> ns, node |-> n]

Alloc(ns, node) == Result(Append(ns, node), Len(ns) + 1)

\* The last node of the chain that starts at n.
TailOf(ns, n) ==
    LET tail[i \in DOMAIN ns] == IF ns[i].next = 0 THEN i ELSE tail[ns[i].next]
    IN tail[n]

\* A slip for Linked: the second node of the chain is taken for its end.
LinkedSecond(ns, head, new) ==
    IF head = 0 THEN Result(ns, new)
    ELSE LET at == IF ns[head].next = 0 THEN head ELSE ns[head].next
         IN Result([ns EXCEPT ![at].next = new], head)

\* append_node_to_tail: an empty chain is replaced by the new one.
Linked(ns, head, new) ==
    IF head = 0 THEN Result(ns, new)
    ELSE Result([ns EXCEPT ![TailOf(ns, head)].next = new], head)

ReduceFromTerm(ns, rhs, lhs) ==
    Alloc(ns, [Node(IF lhs = "filename" THEN "redir" ELSE "arg")
                  EXCEPT !.token = rhs[Len(rhs)].token])

\* reduce_io_file: the operator becomes a flag of the node of its file name.
ReduceIoFile(ns, rhs) ==
    Result([ns EXCEPT ![rhs[2].node].flag = rhs[1].type], rhs[2].node)

ReduceIoHere(ns, rhs) ==
    Alloc(ns, [Node("redir") EXCEPT !.flag = "DLESS", !.token = rhs[2].token])

ReduceListAppend(ns, rhs) == Linked(ns, rhs[1].node, rhs[Len(rhs)].node)

ReduceConditional(ns, rhs) ==
    ReduceListAppend([ns EXCEPT ![rhs[4].node].flag = rhs[2].type], rhs)

ReducePipelineCreate(ns, rhs) ==
    Alloc(ns, [Node("pipeline") EXCEPT !.head = rhs[1].node])

ReducePipelineAppend(ns, rhs) ==
    LET commands == Linked(ns, ns[rhs[1].node].head, rhs[4].node)
    IN Result([commands.nodes EXCEPT ![rhs[1].node].head = commands.node], rhs[1].node)

ReduceSubshell(ns, rhs) ==
    Alloc(ns, [Node("command") EXCEPT !.flag = "subshell", !.head = rhs[2].node])

ReduceSubshellRedirects(ns, rhs) ==
    Result([ns EXCEPT ![rhs[1].node].redirs = rhs[2].node], rhs[1].node)

ReduceSimpleCommand(ns, rhs) ==
    Alloc(ns, IF rhs[1].type = "cmd_prefix"
              THEN [Node("command") EXCEPT !.redirs = rhs[1].node,
                        !.head = IF Len(rhs) = 2 THEN rhs[2].node ELSE 0]
              ELSE [Node("command") EXCEPT !.head = rhs[1].node])

\* The command of a suffix, made when the suffix starts, grows at one of its chains.
ReduceCmdSuffix(ns, rhs, lhs) ==
    LET last == rhs[Len(rhs)]
        cmd == IF Len(rhs) = 1 THEN Alloc(ns, Node("command")) ELSE Result(ns, rhs[1].node)
        new == IF last.type = "io_redirect" THEN Result(cmd.nodes, last.node)
               ELSE ReduceFromTerm(cmd.nodes, rhs, lhs)
        old == cmd.nodes[cmd.node]
        redirs == Linked(new.nodes, old.redirs, new.node)
        args == Linked(new.nodes, old.head, new.node)
    IN IF last.type = "io_redirect"
       THEN Result([redirs.nodes EXCEPT ![cmd.node].redirs = redirs.node], cmd.node)
       ELSE Result([args.nodes EXCEPT ![cmd.node].head = args.node], cmd.node)

\* The name goes before the words of the suffix, the prefix before its redirections.
ReduceFromSuffix(ns, rhs) ==
    LET cmd == rhs[Len(rhs)].node
        args == Linked(ns, rhs[Len(rhs) - 1].node, ns[cmd].head)
        named == [args.nodes EXCEPT ![cmd].head = args.node]
        redirs == Linked(named, rhs[1].node, named[cmd].redirs)
    IN IF Len(rhs) = 3
       THEN Result([redirs.nodes EXCEPT ![cmd].redirs = redirs.node], cmd)
       ELSE Result(named, cmd)

\* The handler of a rule, or the node of the first symbol where there is none.
Reduce(ns, rule, rhs) ==
    CASE rule.handler = "none" -> Result(ns, IF rhs = << >> THEN 0 ELSE rhs[1].node)
      [] rule.handler \in {"program", "compound_list"} -> Result(ns, rhs[2].node)
      [] rule.handler \in {"list_append", "redir_append"} -> ReduceListAppend(ns, rhs)
      [] rule.handler = "conditional" -> ReduceConditional(ns, rhs)
      [] rule.handler = "pipeline_create" -> ReducePipelineCreate(ns, rhs)
      [] rule.handler = "pipeline_append" -> ReducePipelineAppend(ns, rhs)
      [] rule.handler = "subshell" -> ReduceSubshell(ns, rhs)
      [] rule.handler = "subshell_redirects" -> ReduceSubshellRedirects(ns, rhs)
      [] rule.handler = "simple" -> ReduceSimpleCommand(ns, rhs)
      [] rule.handler = "from_suffix" -> ReduceFromSuffix(ns, rhs)
      [] rule.handler = "from_term" -> ReduceFromTerm(ns, rhs, rule.lhs)
      [] rule.handler = "cmd_suffix" -> ReduceCmdSuffix(ns, rhs, rule.lhs)
      [] rule.handler = "io_file" -> ReduceIoFile(ns, rhs)
      [] rule.handler = "io_here" -> ReduceIoHere(ns, rhs)

-------------------------------------------------------------------------------
(* Reading a tree back, in the normal form of Grammar.                          *)

Sign(s) == <<<<s, 0>>>>

\* What the chain that starts at n stands for.
Yield(ns, n) ==
    LET yield[i \in 0 .. Len(ns)] ==
        IF i = 0 THEN << >>
        ELSE LET node == ns[i]
                 Separated(s) ==
                     IF node.next = 0 THEN << >> ELSE Sign(s) \o yield[node.next]
             IN CASE node.type = "arg" -> <<<<"WORD", node.token>>>> \o yield[node.next]
                  [] node.type = "redir" ->
                        <<<<node.flag, node.token>>>> \o yield[node.next]
                  [] node.type = "command" ->
                        (IF node.flag = "subshell"
                         THEN Sign("OPAR") \o yield[node.head] \o Sign("CPAR")
                         ELSE yield[node.head])
                        \o yield[node.redirs] \o Separated("PIPE")
                  [] node.type = "pipeline" ->
                        yield[node.head]
                        \o (IF node.next = 0 THEN << >>
                            ELSE Separated(IF ns[node.next].flag = "none" THEN "NEWLINE"
                                           ELSE ns[node.next].flag))
    IN yield[n]
=============================================================================
