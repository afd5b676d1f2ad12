----------------------------- MODULE MCDevice ------------------------------
(* Small instances of one device: in each behaviour its life with its       *)
(* Gateway, or installers that replace the version it runs.                 *)
EXTENDS ProjectRoot, Installer, TLC

Symmetry == Permutations(Keys) \cup Permutations(Bindings) \cup Permutations(Roots)
            \cup Permutations(Installers)

VARIABLE installing
OneDeviceInit ==
    /\ installing \in BOOLEAN /\ RootInit /\ InstallerInit
    /\ installing => scene = "keys" /\ system = "linux"
    /\ ~installing => target = "linux" /\ activePath = Nil
OneDeviceNext ==
    \/ ~installing /\ RootNext /\ UNCHANGED <<installerVars, installing>>
    \/ installing /\ InstallerNext /\ UNCHANGED <<allVars, installing>>
OneDeviceSpec == OneDeviceInit /\ [][OneDeviceNext]_<<allVars, installerVars, installing>>
=============================================================================
