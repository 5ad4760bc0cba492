---------------------------- MODULE HandlerCode ----------------------------
(***************************************************************************)
(* The language the tool and prompt handlers of pkg/toolsets are written    *)
(* down in.  A handler is a sequence of instructions: the requests it sends *)
(* in the order the code sends them, what an error of each does, and the    *)
(* branches the data decide.  The data themselves (arguments, answers, the  *)
(* text of the result) are left out: a condition on them is a choice.       *)
(*                                                                         *)
(* An instruction has the same fields whatever it is: verb and kind belong  *)
(* to requests, body and rescue are sets of codes.  A kind in Services is a *)
(* service the server calls directly, past the API server and past the      *)
(* access control of the Kubernetes client; the verb is then read or change.*)
(***************************************************************************)
EXTENDS Sequences

Instr(op, verb, kind, body, rescue) ==
    <<[op |-> op, verb |-> verb, kind |-> kind,
       body |-> body, rescue |-> rescue]>>

\* A request whose error the function returns: if err != nil { return err }.
Do(verb, kind) == Instr("do", verb, kind, {}, {})

\* A request whose error the code drops or only logs.
Try(verb, kind) == Instr("try", verb, kind, {}, {})

\* A request made with context.Background(): the cancellation of the call
\* does not reach it, and it carries no MCP session.
Detached(verb, kind) == Instr("detached", verb, kind, {}, {})

\* Such a request whose error the function does return (Helm's client).
Apart(verb, kind) == Instr("apart", verb, kind, {}, {})

\* Creating a temporary object that the handler owns, and its removal.
Temporary(kind) == Instr("temporary", "create", kind, {}, {})
Cleanup(kind) == Instr("cleanup", "delete", kind, {}, {})

\* return an error; return early without one.
Fail == Instr("fail", "", "", {}, {})
Return == Instr("return", "", "", {}, {})

\* A branch on data: one of a set of codes, or nothing.
Either(codes) == Instr("either", "", "", codes, {})
Maybe(code) == Either({code, <<>>})

\* A check that may refuse: arguments, discovery, parsing.
Check == Maybe(Fail)

\* for ... range: at most MaxRounds = 2 rounds are followed.
Each(code) == Maybe(code \o Maybe(code))

\* A function body.  An error in it runs the rescue instead of its rest, a
\* Return leaves it, and the code after it goes on.
Attempt(code, rescue) == Instr("attempt", "", "", {code}, {rescue})
Section(code) == Attempt(code, <<>>)
Call(code) == Attempt(code, Fail)

\* defer cleanup() in a function whose body is code.
Finally(code, cleanup) == Attempt(code, cleanup \o Fail) \o cleanup

\* One entry of a toolset's table.  Hints the source leaves out are FALSE,
\* except destructiveHint, which the code compares with true.
Tool(name, readOnly, destructive, code) ==
    [name |-> name, readOnly |-> readOnly, destructive |-> destructive,
     requires |-> {}, code |-> code]
Reads(name, code) == Tool(name, TRUE, FALSE, code)
Adds(name, code) == Tool(name, FALSE, FALSE, code)
Destroys(name, code) == Tool(name, FALSE, TRUE, code)

\* The verbs that change something.
Writes == {"create", "apply", "patch", "update", "delete", "change"}
=============================================================================
