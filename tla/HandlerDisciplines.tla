------------------------- MODULE HandlerDisciplines -------------------------
(***************************************************************************)
(* How the handlers of the toolsets are written, as conditions on their     *)
(* code that can be read off it without running it.  TLC evaluates the      *)
(* assumptions on the tables of a run; ToolCallsProofs shows that they make *)
(* the properties of ToolCalls hold whatever the settings are, whichever    *)
(* requests fail and whenever the client cancels.                           *)
(***************************************************************************)
EXTENDS ToolCalls

InstructionsOf(code) == {code[j] : j \in DOMAIN code}

\* What Enter leaves behind the body of an attempt.
CatchOf(i) == Instr("catch", "", "", {}, i.rescue)[1]

\* Whatever a set of instructions runs is in the set.
IsInside(i, S) ==
    /\ i.body \subseteq Seq(S) /\ i.rescue \subseteq Seq(S)
    /\ i.op = "attempt" => CatchOf(i) \in S
Closed(S) == \A i \in S : IsInside(i, S)

\* All the instructions that calls come across.
Parts(S) ==
    S \cup UNION {InstructionsOf(code) : code \in UNION {i.body \cup i.rescue : i \in S}}
      \cup {CatchOf(i) : i \in {i \in S : i.op = "attempt"}}
ThreeDeep(S) == Parts(Parts(Parts(S)))
AllCode ==
    ThreeDeep(ThreeDeep(ThreeDeep(
        UNION {InstructionsOf(Check \o item.code) : item \in Offered})))

\* The instructions of S that run nothing but instructions of S.  Bodies are
\* nested at most nine deep, here and above: Closed says that this is enough.
Inside(S) == {i \in S : IsInside(i, S)}
ThreeInside(S) == Inside(Inside(Inside(S)))
Core(S) == ThreeInside(ThreeInside(ThreeInside(S)))

IsRequest(i) == i.op \in Requests
Changes(i) == IsRequest(i) /\ Persists(i)
CanFail(i) == i.op = "fail" \/ (IsRequest(i) /\ ~ IsBestEffort(i))

ASSUME CodeAssumption ==
    /\ Closed(AllCode)
    /\ \A item \in Offered : Check \o item.code \in Seq(AllCode)

-----------------------------------------------------------------------------
(* read_only: tools annotated as read-only, and prompts, change nothing but *)
(* what is outside.                                                         *)

Harmless == Core({i \in AllCode : Changes(i) => i.kind \in Outside})

ASSUME ReadOnlyAssumption ==
    /\ Closed(Harmless)
    /\ \A i \in Harmless : Changes(i) => i.kind \in Outside
    /\ \A item \in Offered :
          (item \in Prompts \/ item.readOnly) => Check \o item.code \in Seq(Harmless)

-----------------------------------------------------------------------------
(* disable_destructive: a tool without the hint may overwrite what it has   *)
(* created, after a create whose error ends it; pods_run forces applies.    *)

Overwrites(i) == Changes(i) /\ Replaces(i.verb, i.kind)
Creates(i, kind) ==
    Changes(i) /\ CanFail(i) /\ i.verb = "create" /\ i.kind = kind

Gentle == Core({i \in AllCode : ~ Overwrites(i)})
OwnOnly(kind) == Core({i \in AllCode : Overwrites(i) => i.kind = kind})
Applying == Core({i \in AllCode : Overwrites(i) => i.verb = "apply"})

\* Gentle code, a create at position n, and code for the kind it created.
CreatesFirst(code, n, kind) ==
    /\ SubSeq(code, 1, n - 1) \in Seq(Gentle)
    /\ Creates(code[n], kind)
    /\ SubSeq(code, n + 1, Len(code)) \in Seq(OwnOnly(kind))
    /\ Rescues(SubSeq(code, n + 1, Len(code))) = {}

CreatedKinds == {i.kind : i \in {i \in AllCode : Changes(i) /\ i.verb = "create"}}

ASSUME DestructiveAssumption ==
    /\ Closed(Gentle)
    /\ \A i \in Gentle : ~ Overwrites(i)
    /\ \A kind \in CreatedKinds :
          /\ Closed(OwnOnly(kind))
          /\ \A i \in OwnOnly(kind) : Overwrites(i) => i.kind = kind
    /\ Closed(Applying)
    /\ \A i \in Applying : Overwrites(i) => i.verb = "apply"
    /\ \A item \in Offered :
          item \in Prompts \/ ~ item.destructive =>
             LET code == Check \o item.code
             IN  \/ code \in Seq(Gentle)
                 \/ item.name \in TakesOver /\ code \in Seq(Applying)
                 \/ \E n \in DOMAIN code, kind \in CreatedKinds :
                       CreatesFirst(code, n, kind)

-----------------------------------------------------------------------------
(* A handler's one change is the last thing it does.                        *)

Quiet == Core({i \in AllCode : ~ Changes(i)})

EndsWith(code, S) ==
    \/ code \in Seq(Quiet)
    \/ /\ code # <<>>
       /\ SubSeq(code, 1, Len(code) - 1) \in Seq(Quiet)
       /\ code[Len(code)] \in S

\* Requests, and branches between such ends (three deep).
Branches(S) ==
    S \cup {i \in AllCode :
               i.op = "either" /\ \A code \in i.body : EndsWith(code, S)}
Finals == Branches(Branches(Branches({i \in AllCode : IsRequest(i)})))

ASSUME LastChangeAssumption ==
    /\ Closed(Quiet)
    /\ \A i \in Quiet : ~ Changes(i)
    /\ \A i \in Finals :
          \/ IsRequest(i)
          \/ i.op = "either" /\ \A code \in i.body : EndsWith(code, Finals)
    /\ \A item \in Offered :
          item.name \notin SeveralChanges => EndsWith(Check \o item.code, Finals)

-----------------------------------------------------------------------------
(* A prompt asks for its subject first; what follows cannot fail it.        *)

AboutSubject == Core({i \in AllCode : IsRequest(i) => i.kind \in PromptSubjects})

\* Errors are dropped, or end a body whose rescue drops them.
DropsErrors(i, S) ==
    /\ ~ CanFail(i)
    /\ i.op = "either" => i.body \subseteq Seq(S)
    /\ i.op \in {"attempt", "catch"} => i.rescue \subseteq Seq(S)
    /\ i.op = "attempt" => CatchOf(i) \in S

Dropping(S) == {i \in S : DropsErrors(i, S)}
ThreeDropping(S) == Dropping(Dropping(Dropping(S)))
Unfailing == ThreeDropping(ThreeDropping(ThreeDropping(AllCode)))

ASSUME PromptAssumption ==
    /\ Closed(AboutSubject)
    /\ \A i \in AboutSubject : IsRequest(i) => i.kind \in PromptSubjects
    /\ \A i \in Unfailing : i \in AllCode /\ DropsErrors(i, Unfailing)
    /\ \A prompt \in Prompts :
          LET code == Check \o prompt.code
          IN  \E n \in 0..Len(code) :
                 /\ SubSeq(code, 1, n) \in Seq(AboutSubject)
                 /\ SubSeq(code, n + 1, Len(code)) \in Seq(Unfailing)
    /\ \A prompt \in Prompts, tool \in Tools : prompt.name # tool.name

-----------------------------------------------------------------------------
(* A temporary object is created right before a body that is followed, and  *)
(* rescued, by its removal.                                                 *)

IsCleanup(i, kind) ==
    i \in AllCode /\ i.op = "cleanup" /\ i.verb = "delete" /\ i.kind = kind

\* Nothing temporary is created or removed.
Plain == Core({i \in AllCode : i.op \notin {"temporary", "cleanup"}})

Tidies(code, kind) ==
    /\ code # <<>> /\ IsCleanup(code[1], kind)
    /\ Tail(code) \in Seq(Plain)

\* The attempt of a Finally, and its catch once it has been entered.
Guards(i, kind) == \A code \in i.rescue : Tidies(code, kind)

\* A temporary object is created at position j, with all that must follow.
Covered(code, j) ==
    /\ j + 2 <= Len(code)
    /\ code[j + 1].op = "attempt"
    /\ code[j + 1].body \subseteq Seq(Plain)
    /\ Guards(code[j + 1], code[j].kind)
    /\ IsCleanup(code[j + 2], code[j].kind)

Tidy(code) ==
    \A j \in DOMAIN code :
        code[j] \in AllCode /\ (code[j].op = "temporary" => Covered(code, j))

ASSUME TemporaryAssumption ==
    /\ Closed(Plain)
    /\ \A i \in Plain : i \in AllCode /\ i.op \notin {"temporary", "cleanup"}
    /\ \A i \in AllCode : \A code \in i.body \cup i.rescue : Tidy(code)
    /\ \A item \in Offered : Tidy(Check \o item.code)

\* No rule asks for the user's consent to the removal of a temporary object:
\* it is made on a context without the MCP session, and would be refused.
CleanupsNeedNoAnswer ==
    \A s \in Settings, i \in AllCode :
        i.op = "cleanup" => MatchKubeLevelRules(s.Rules, RequestSubject(i)) = {}
=============================================================================
