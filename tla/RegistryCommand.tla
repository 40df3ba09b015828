--------------------------- MODULE RegistryCommand ---------------------------
(***************************************************************************)
(* The start command registrycommand.Client reads from an image's config,  *)
(* a record of the two lists Entrypoint and Cmd.                           *)
(***************************************************************************)
EXTENDS RawText

ImageConfig == [entrypoint : Seq(Raw), cmd : Seq(Raw)]

\* mutant of validCommand: only the program must not be blank
validCommand_Program(command) ==
    IF command # <<>> /\ IsBlank(command[1]) THEN <<>> ELSE command

\* one blank element makes the whole list count as absent
validCommand(command) == IF NoneBlank(command) THEN command ELSE <<>>

\* Entrypoint, else Cmd; the empty list stands for ResolveCommand's error
ResolveCommand(config) ==
    IF validCommand(config.entrypoint) # <<>>
    THEN validCommand(config.entrypoint)
    ELSE validCommand(config.cmd)

=============================================================================
