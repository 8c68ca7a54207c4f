---------------------------- MODULE SettingsFile ----------------------------
(***************************************************************************)
(* The host's settings file, where `gaff init` registers `gaff hook` and   *)
(* `gaff init --uninstall` takes it out again (init.rs): what each refuses *)
(* to touch, what it makes of the hooks there, and what is on disk when it *)
(* dies on the way.  Pure operators on a file's state.                     *)
(*                                                                         *)
(* Abstracted: the other keys, which the code carries through; the order   *)
(* of entries and hooks, which it keeps, so an event's value is a set of   *)
(* entries and an entry's hooks a set of commands; a missing `hooks` key,  *)
(* which is as an empty one.  An edit of the host's between gaff's read    *)
(* and its rename, which is lost, is left out.                             *)
(***************************************************************************)
CONSTANTS HookEvents,  \* the adapter's hook_events
          Commands,    \* command lines a hook may have
          Argv,        \* the argv of each, with the program's base name
          NotObject,   \* a `hooks` key that is no object
          NotArray,    \* an event's value, or an entry's `hooks`, that is no array
          Anything     \* an entry without a matcher

CONSTANTS AllEvents,   \* the events a host has hooks for
          Matchers,    \* the matchers an entry may have
          Files        \* the settings files a host may have

\* `hooks` is a function from events to sets of entries, an entry a matcher and its hooks.
NoHooks == [e \in {} |-> {}]

SettingsEntries == [matcher : Matchers, hooks : {NotArray} \cup SUBSET Commands]
SettingsHooks(events) == [events -> {NotArray} \cup SUBSET SettingsEntries]

ASSUME SettingsAssumption ==
  /\ \A s \in Files :
       /\ s \in [kind : {"absent", "empty", "odd", "unreadable", "broken", "text"},
                 linked : BOOLEAN, hooks : {s.hooks}]
       /\ s.hooks = NotObject \/ \E events \in SUBSET AllEvents : s.hooks \in SettingsHooks(events)
  /\ HookEvents \subseteq AllEvents
  /\ Anything \in Matchers
  /\ \A set \in (SUBSET Commands) \cup SUBSET SettingsEntries : NotArray # set
  /\ \A events \in SUBSET AllEvents : NotObject \notin SettingsHooks(events)

-----------------------------------------------------------------------------
(* What is ours.                                                           *)

\* Mutant: only the very command line counts.
RunsExactly(registered, command) == registered = command

\* By any path to the program.
RunsCommand(registered, command) == Argv[registered] = Argv[command]

HasCommand(entry, command) ==
  entry.hooks # NotArray /\ \E c \in entry.hooks : RunsCommand(c, command)

-----------------------------------------------------------------------------
(* The edits.                                                              *)

\* An event of an unknown shape is left alone.
InstallEvent(value, command) ==
  IF value = NotArray \/ \E entry \in value : HasCommand(entry, command) THEN value
  ELSE value \cup {[matcher |-> Anything, hooks |-> {command}]}

InstallHooks(hooks, command) ==
  [e \in DOMAIN hooks \cup HookEvents |->
     IF e \notin HookEvents THEN hooks[e]
     ELSE InstallEvent(IF e \in DOMAIN hooks THEN hooks[e] ELSE {}, command)]

Strip(entry, command) ==
  IF entry.hooks = NotArray THEN entry
  ELSE [entry EXCEPT !.hooks = {c \in @ : ~RunsCommand(c, command)}]

\* An entry goes when this took its last hook; one that was empty is the user's.
Emptied(entry, command) == HasCommand(entry, command) /\ Strip(entry, command).hooks = {}

UninstallEvent(value, command) ==
  IF value = NotArray THEN value
  ELSE {Strip(entry, command) : entry \in {x \in value : ~Emptied(x, command)}}

\* An event with no entries goes too, whoever left it so.
UninstallHooks(hooks, command) ==
  LET left == [e \in DOMAIN hooks |-> UninstallEvent(hooks[e], command)]
  IN [e \in {x \in DOMAIN hooks : left[x] # {}} |-> left[e]]

-----------------------------------------------------------------------------
(* The file.                                                               *)

Refuses(s) ==
  s.kind \in {"odd", "unreadable", "broken"} \/ (s.kind = "text" /\ s.hooks = NotObject)

ReadHooks(s) == IF s.kind = "text" THEN s.hooks ELSE NoHooks

Edited(s, uninstall, command) ==
  IF uninstall THEN UninstallHooks(ReadHooks(s), command) ELSE InstallHooks(ReadHooks(s), command)

\* The mutator's answer: an uninstall that takes no hook out changes nothing.
Changes(s, uninstall, command) ==
  IF ~uninstall THEN InstallHooks(ReadHooks(s), command) # ReadHooks(s)
  ELSE \E e \in DOMAIN ReadHooks(s) :
         /\ ReadHooks(s)[e] # NotArray
         /\ \E entry \in ReadHooks(s)[e] : HasCommand(entry, command)

\* What edit_settings leaves behind when it goes through.
After(s, uninstall, command) ==
  IF Refuses(s) \/ ~Changes(s, uninstall, command) THEN s
  ELSE [s EXCEPT !.kind = "text", !.hooks = Edited(s, uninstall, command)]

\* What it may leave behind when it dies.  A file with a second name is written in place:
\* a death there leaves it empty, or the front part of the new text, which is no JSON.
Died(s, uninstall, command) ==
  {s, After(s, uninstall, command)}
    \cup {[s EXCEPT !.kind = torn, !.hooks = NoHooks] : torn \in
            {k \in {"empty", "broken"} : s.linked /\ ~Refuses(s) /\ Changes(s, uninstall, command)}}

-----------------------------------------------------------------------------
(* What a user may rely on.                                                *)

\* The entries gaff can read on an event.
Readable(s, e) ==
  IF e \notin DOMAIN ReadHooks(s) \/ ReadHooks(s)[e] = NotArray THEN {}
  ELSE {entry \in ReadHooks(s)[e] : entry.hooks # NotArray}

\* The hooks of others, each with the matcher it runs under.
OthersOn(s, e, command) ==
  UNION {{<<entry.matcher, c>> : c \in {x \in entry.hooks : Argv[x] # Argv[command]}} :
           entry \in Readable(s, e)}

Ours(s, e, command) == \E entry \in Readable(s, e) : HasCommand(entry, command)

\* An install registers every event it understands, once whatever path names the program;
\* it and an uninstall leave the hooks of others as they were, and one after the other
\* leaves the file's hooks as they were (but for an event that had no entries).  A refused
\* file is not touched.  After a death on the way a second run ends where the first would
\* have; the exception is a file with a second name, which may have lost every hook, those
\* of others too.
Kept(s, command) ==
  LET installed == After(s, FALSE, command)
      removed(from) == After(from, TRUE, command)
      fresh == \A e \in DOMAIN ReadHooks(s) :
                 ReadHooks(s)[e] # {} /\ ~Ours(s, e, command)
  IN IF Refuses(s)
     THEN \A uninstall \in BOOLEAN : Died(s, uninstall, command) = {s}
     ELSE /\ \A e \in HookEvents :
               Ours(installed, e, command) \/ ReadHooks(installed)[e] = NotArray
          /\ \A again \in Commands :
               Argv[again] = Argv[command] => After(installed, FALSE, again) = installed
          /\ \A e \in DOMAIN ReadHooks(installed) :
               /\ OthersOn(installed, e, command) = OthersOn(s, e, command)
               /\ OthersOn(removed(s), e, command) = OthersOn(s, e, command)
               /\ ~Ours(removed(installed), e, command) /\ ~Ours(removed(s), e, command)
          /\ fresh => ReadHooks(removed(installed)) = ReadHooks(s)
          /\ \A uninstall \in BOOLEAN : \A left \in Died(s, uninstall, command) :
               \/ After(left, uninstall, command) = After(s, uninstall, command)
               \/ s.linked /\ ReadHooks(left) = NoHooks

\* The files, and the commands registered in them, for which it does not hold.
Misedited == {t \in Files \X Commands : ~Kept(t[1], t[2])}
=============================================================================
