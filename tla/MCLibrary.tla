----------------------------- MODULE MCLibrary -----------------------------
(***************************************************************************)
(* The parts that share no state, checked in one run: a behaviour is a     *)
(* behaviour of one of them, the others being idle.                        *)
(***************************************************************************)
EXTENDS MCCore, MCOps, MCFiles, MCFrames, MCView, MCCodes, MCBanners, MCWasi,
        MCContract, MCCommands

LibraryInit ==
    \/ CoreInit /\ OpsIdle /\ FilesIdle /\ FramesIdle /\ ViewIdle
       /\ CodesIdle /\ BannersIdle /\ WasiIdle /\ ContractIdle /\ CliIdle
    \/ CoreIdle /\ OpsInit /\ FilesIdle /\ FramesIdle /\ ViewIdle
       /\ CodesIdle /\ BannersIdle /\ WasiIdle /\ ContractIdle /\ CliIdle
    \/ CoreIdle /\ OpsIdle /\ FilesInit /\ FramesIdle /\ ViewIdle
       /\ CodesIdle /\ BannersIdle /\ WasiIdle /\ ContractIdle /\ CliIdle
    \/ CoreIdle /\ OpsIdle /\ FilesIdle /\ FramesInit /\ ViewIdle
       /\ CodesIdle /\ BannersIdle /\ WasiIdle /\ ContractIdle /\ CliIdle
    \/ CoreIdle /\ OpsIdle /\ FilesIdle /\ FramesIdle /\ ViewInit
       /\ CodesIdle /\ BannersIdle /\ WasiIdle /\ ContractIdle /\ CliIdle
    \/ CoreIdle /\ OpsIdle /\ FilesIdle /\ FramesIdle /\ ViewIdle
       /\ CodesInit /\ BannersIdle /\ WasiIdle /\ ContractIdle /\ CliIdle
    \/ CoreIdle /\ OpsIdle /\ FilesIdle /\ FramesIdle /\ ViewIdle
       /\ CodesIdle /\ BannersInit /\ WasiIdle /\ ContractIdle /\ CliIdle
    \/ CoreIdle /\ OpsIdle /\ FilesIdle /\ FramesIdle /\ ViewIdle
       /\ CodesIdle /\ BannersIdle /\ WasiInit /\ ContractIdle /\ CliIdle
    \/ CoreIdle /\ OpsIdle /\ FilesIdle /\ FramesIdle /\ ViewIdle
       /\ CodesIdle /\ BannersIdle /\ WasiIdle /\ ContractInit /\ CliIdle
    \/ CoreIdle /\ OpsIdle /\ FilesIdle /\ FramesIdle /\ ViewIdle
       /\ CodesIdle /\ BannersIdle /\ WasiIdle /\ ContractIdle /\ CliInit
Working == [core   |-> phase # "idle",  ops    |-> stage # "idle",
            files  |-> names # << >>,   frames |-> worker.stage # "idle",
            view   |-> pane # NoWindow,   codes  |-> coded # NothingCoded,
            banners |-> grid # NoGrid,  wasi |-> guest # NoGuest,
            contract |-> ~ContractIdle,   commands |-> ~CliIdle]
LibraryNext ==
    \/ Working.core /\ CoreNext
       /\ UNCHANGED <<opsVars, filesVars, framesVars, viewVars, codesVars, bannerVars,
                      wasiVars, contractVars, lineVars>>
    \/ Working.ops /\ OpsNext
       /\ UNCHANGED <<coreVars, filesVars, framesVars, viewVars, codesVars, bannerVars,
                      wasiVars, contractVars, lineVars>>
    \/ Working.files /\ FilesNext
       /\ UNCHANGED <<coreVars, opsVars, framesVars, viewVars, codesVars, bannerVars,
                      wasiVars, contractVars, lineVars>>
    \/ Working.frames /\ FramesNext
       /\ UNCHANGED <<coreVars, opsVars, filesVars, viewVars, codesVars, bannerVars,
                      wasiVars, contractVars, lineVars>>
    \/ Working.view /\ ViewNext
       /\ UNCHANGED <<coreVars, opsVars, filesVars, framesVars, codesVars, bannerVars,
                      wasiVars, contractVars, lineVars>>
    \/ Working.codes /\ CodesNext
       /\ UNCHANGED <<coreVars, opsVars, filesVars, framesVars, viewVars, bannerVars,
                      wasiVars, contractVars, lineVars>>
    \/ Working.banners /\ BannersNext
       /\ UNCHANGED <<coreVars, opsVars, filesVars, framesVars, viewVars, codesVars,
                      wasiVars, contractVars, lineVars>>
    \/ Working.wasi /\ WasiNext
       /\ UNCHANGED <<coreVars, opsVars, filesVars, framesVars, viewVars, codesVars,
                      bannerVars, contractVars, lineVars>>
    \/ Working.contract /\ ContractNext
       /\ UNCHANGED <<coreVars, opsVars, filesVars, framesVars, viewVars, codesVars,
                      bannerVars, wasiVars, lineVars>>
    \/ Working.commands /\ CliNext
       /\ UNCHANGED <<coreVars, opsVars, filesVars, framesVars, viewVars, codesVars,
                      bannerVars, wasiVars, contractVars>>
LibrarySpec ==
    LibraryInit /\ [][LibraryNext]_<<coreVars, opsVars, filesVars, framesVars,
                                   viewVars, codesVars, bannerVars, wasiVars, contractVars,
                                   lineVars>>
=============================================================================
