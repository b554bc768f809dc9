-------------------------- MODULE MCCommandDispatch --------------------------
(* A directory without a project, two projects and a clone; a compiled-in     *)
(* plugin with nested commands and subcommands; a front end that serves a     *)
(* kind and the same word twice; a baked interactive one; a welded one.       *)
EXTENDS CommandDispatch

CONSTANTS here, proj, other, sub,
          box, list, check, liveT, pipe, mcp, version,
          boxlist, toplist, chk, toppipe, boxpipe, mcpc,
          pk, ak, core, front, aux, server, tool

MCBelow == [d \in Dir |-> [r \in Relative |-> IF d = here THEN proj ELSE None]]
MCDeclares == [d \in Project |-> IF d = proj THEN {front, server, aux} ELSE {tool, front}]
MCWordOf == [c \in Identity |-> CASE c \in {boxlist, toplist} -> list [] c = chk -> check
                                  [] c \in {toppipe, boxpipe} -> pipe [] c = mcpc -> mcp]
MCParentOf == [c \in Identity |-> IF c \in {boxlist, boxpipe} THEN box ELSE None]
MCSubs == [c \in Identity |-> IF c = chk THEN {liveT, list} ELSE {}]
MCCorePaths == {<<version>>}
MCCommands == [p \in Plugin |-> CASE p = core -> {boxlist, chk} [] p = front -> {toppipe, boxpipe}
                                  [] p = server -> {mcpc} [] p = tool -> {toplist} [] p = aux -> {}]
MCKinds == [p \in Plugin |-> CASE p = front -> {pk} [] p = aux -> {ak} [] OTHER -> {}]
MCBakedBy == [w \in Identity \cup Kind |-> CASE w \in {toppipe, boxpipe, pk} -> front
                                             [] w = mcpc -> server [] OTHER -> None]
MCWelded == [t \in Token |-> IF t = list THEN tool ELSE None]

Selectors ==
  LET S(at, env, flag, stray, repo, repoEnv) ==
        [at |-> at, env |-> env, flag |-> flag, stray |-> stray, repo |-> repo, repoEnv |-> repoEnv] IN
  {S(here, None, None, None, None, None), S(proj, None, None, None, None, None),
   S(here, proj, None, None, None, None), S(proj, None, other, None, None, None),
   S(here, None, sub, None, None, None), S(here, sub, None, None, None, None),
   S(here, None, None, None, other, None), S(proj, None, None, None, None, other),
   S(proj, other, proj, None, None, None), S(here, None, None, proj, None, None),
   S(here, None, proj, None, other, None), S(proj, None, None, None, proj, other)}

Lines == {<<box, list>>, <<list>>, <<check, liveT>>, <<check, list>>, <<check, pipe>>,
          <<pipe>>, <<box, pipe>>, <<mcp>>, <<version>>}

MCInvocations ==
  {[at |-> s.at, env |-> s.env, flag |-> s.flag, stray |-> s.stray, repo |-> s.repo,
    repoEnv |-> s.repoEnv, typed |-> t] : s \in Selectors, t \in Lines}
=============================================================================
