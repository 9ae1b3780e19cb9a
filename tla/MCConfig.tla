------------------------------ MODULE MCConfig ------------------------------
(* ConfigSystem for TLC, with a few representative specs. *)
EXTENDS ConfigSystem

CONSTANTS a, b  \* images

Prompt(prompt) ==
  [type |-> "prompt", version |-> TRUE, description |-> TRUE, prompt |-> prompt,
   image |-> None, mode |-> "sidecar", quantities |-> TRUE, binary |-> FALSE,
   allowedCommands |-> FALSE]

Mcp(image, mode, quantities) ==
  [Prompt(FALSE) EXCEPT !.type = "mcp", !.image = image, !.mode = mode,
                        !.quantities = quantities]

Cli(allowedCommands) ==
  [Prompt(FALSE) EXCEPT !.type = "cli", !.binary = TRUE, !.allowedCommands = allowedCommands]

Profile(visibility, ownerID) ==
  [displayName |-> TRUE, systemPrompt |-> TRUE, provider |-> TRUE, name |-> TRUE,
   profileType |-> "specialist", visibility |-> visibility, ownerID |-> ownerID]

Runs == {Mcp(a, "shared", TRUE), Mcp(b, "shared", TRUE), Mcp(a, "sidecar", TRUE),
         Mcp(b, "shared", FALSE), Cli(FALSE)}
Roles == {Profile("user", FALSE), Profile("user", TRUE)}

=============================================================================
