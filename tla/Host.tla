-------------------------------- MODULE Host --------------------------------
(***************************************************************************)
(* The host around the Broker: the platform adapters and the tools, trees, *)
(* archives and listings they read, the lock that makes a Broker the only  *)
(* one, the control channel and the processes at its two ends, and the     *)
(* command line.  They share no state but what one returns to another, and *)
(* every value one may return is a choice of the one that uses it; a       *)
(* behaviour is that of one part, the others rest.                         *)
(***************************************************************************)
EXTENDS SimulatorAdapter, EmulatorAdapter, ToolRunner, ArtifactTree, ApkManifest,
        SimctlOutput, InstanceLock, ControlChannel, CatalogCommand

VARIABLE part

adapterVars == <<simVars, emuVars>>
readVars == <<treeVars, apkVars, simctlVars>>
hostVars == <<part, adapterVars, toolVars, readVars, lockVars, controlVars, commandVars>>

Parts == {"simulator", "emulator", "tool", "tree", "apk", "simctl", "lock", "control", "command"}

HostInit ==
    /\ part \in Parts
    /\ SimInit /\ (part # "simulator" => apps = [t \in SimTargets |-> NoApp])
    /\ EmuInit
    /\ ToolInit /\ (part # "tool" => tool.platform = "ios")
    /\ TreeInit /\ (part # "tree" => walk.job = "copy")
    /\ ApkInit /\ (part # "apk" => apk = CHOOSE a \in ZipStart : TRUE)
    /\ SimctlInit /\ (part # "simctl" => plist = CHOOSE p \in ListStart : TRUE)
    /\ LockInit /\ (part # "lock" => socket = 0)
    /\ ControlInit /\ (part # "control" => control = CborStart(FALSE))
    /\ CommandInit

HostNext ==
    /\ UNCHANGED part
    /\ \/ part = "simulator" /\ SimNext
          /\ UNCHANGED <<emuVars, toolVars, readVars, lockVars, controlVars, commandVars>>
       \/ part = "emulator" /\ EmuNext
          /\ UNCHANGED <<simVars, toolVars, readVars, lockVars, controlVars, commandVars>>
       \/ part = "tool" /\ ToolNext
          /\ UNCHANGED <<adapterVars, readVars, lockVars, controlVars, commandVars>>
       \/ part = "tree" /\ TreeNext
          /\ UNCHANGED <<adapterVars, toolVars, apkVars, simctlVars, lockVars, controlVars, commandVars>>
       \/ part = "apk" /\ ApkNext
          /\ UNCHANGED <<adapterVars, toolVars, treeVars, simctlVars, lockVars, controlVars, commandVars>>
       \/ part = "simctl" /\ SimctlNext
          /\ UNCHANGED <<adapterVars, toolVars, treeVars, apkVars, lockVars, controlVars, commandVars>>
       \/ part = "lock" /\ LockNext
          /\ UNCHANGED <<adapterVars, toolVars, readVars, controlVars, commandVars>>
       \/ part = "control" /\ ControlNext
          /\ UNCHANGED <<adapterVars, toolVars, readVars, lockVars, commandVars>>
       \/ part = "command" /\ CommandNext
          /\ UNCHANGED <<adapterVars, toolVars, readVars, lockVars, controlVars>>

HostSpec == HostInit /\ [][HostNext]_hostVars
-----------------------------------------------------------------------------
(***************************************************************************)
(* The ledger agrees with the reservations and the sockets.  A Simulator   *)
(* launch that ran simctl launch and gave its reservation back has no      *)
(* process of its own at the path it verified, nor the app it installed    *)
(* there; once it took the endpoint over it signals no other process.  An  *)
(* Emulator launch that failed after a confirmed start has stopped its     *)
(* process, one that failed or cleaned up has no mapping left, and a       *)
(* mapping of others is removed only if it took the place of the launch's  *)
(* own after the listing.                                                  *)
(***************************************************************************)
AdaptersRollBack == SimLedgerExact /\ SimRollsBack /\ EmuRollsBack

(***************************************************************************)
(* What an adapter accepts from outside (a tree that may change under it,  *)
(* an archive, the output of simctl) it has read whole and in one meaning. *)
(***************************************************************************)
InputsReadWhole == TreeReadWhole /\ ManifestUnambiguous /\ ListingsExact

(***************************************************************************)
(* The CLI's answer is true of what the Target did, and it is the one the  *)
(* command's own manifest announces.                                       *)
(***************************************************************************)
CliHonest == CliOutcomeHonest /\ ContractHonoured
=============================================================================
