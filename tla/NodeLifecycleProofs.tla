------------------------ MODULE NodeLifecycleProofs ------------------------
(***************************************************************************)
(* NodeLifecycle for every set of seeds and peers and any number of runs   *)
(* and errors: neither the keys nor the channels are lost, whatever step   *)
(* of main, build, start and shutdown a crash follows.                     *)
(***************************************************************************)
EXTENDS NodeLifecycle, TLAPS

-----------------------------------------------------------------------------
(* The inductive invariant.                                                *)

\* While WalletManager::new runs: a database is only there with the seed this
\* run read, and it is created only when the seed file holds this run's seed.
SeedPhase ==
  /\ main \in {"load_wallet", "write_seed", "fill_seed", "create_wallet"}
       => mnemonic \in Seeds
  /\ main = "load_wallet" => walletDb \in {"none", mnemonic}
  /\ main \in {"write_seed", "fill_seed", "create_wallet"} => walletDb = "none"
  /\ main = "create_wallet" => seed = mnemonic

\* Nothing is in "store" before the directory is; build goes on only with a
\* ChannelManager or without the directory, and until the node task runs
\* nothing is written to it.
StorePhase ==
  /\ monitors \/ manager => storeDir
  /\ main = "bind" => manager \/ ~storeDir
  /\ background # "none" => node # "none"

\* What the end of a run in order rests on: build left WalletManager::new with
\* a wallet, so with a whole seed file, and the node task is done only after
\* the background task has written the manager, or failed to.
BootPhase ==
  /\ main \in {"load_manager", "bind", "serving", "awaiting"}
       => walletDb \in Seeds
  /\ node = "done" => background = "done"
  /\ background = "done" /\ errors = 0 => manager

IndInv ==
  /\ TypeOK
  /\ SeedOfWalletKept /\ SeedPhase
  /\ NoAmnesia /\ StorePhase
  /\ CleanEndIsBootable /\ BootPhase

-----------------------------------------------------------------------------
\* A node that was never started satisfies the invariant.
LEMMA InitInv == Init => IndInv
<1> SUFFICES ASSUME Init PROVE IndInv
  OBVIOUS
<1>1. {storeDir, manager, monitors, socket, shutdown} \subseteq BOOLEAN
  BY Zenon DEF Init
<1>2. runs \in 0..MaxRuns /\ errors \in 0..MaxErrors
  BY LifecycleBounds DEF Init
<1>3. TypeOK
  BY <1>1, <1>2 DEF Init, TypeOK
<1>4. SeedOfWalletKept /\ NoAmnesia /\ SeedPhase /\ StorePhase
  BY DEF Init, SeedOfWalletKept, NoAmnesia, SeedPhase, StorePhase
<1>5. CleanEndIsBootable /\ BootPhase
  BY DEF Init, CleanEndIsBootable, Unbootable, BootPhase
<1>6. QED
  BY <1>3, <1>4, <1>5 DEF IndInv

\* Every step keeps the types.
LEMMA TypeStep ==
  ASSUME IndInv, [Next]_vars
  PROVE  TypeOK'
<1>1. CASE Start
  BY <1>1, LifecycleBounds DEF IndInv, TypeOK, Start, disk, tasks
<1>2. CASE Crash
  BY <1>2 DEF IndInv, TypeOK, Crash, disk, End
<1>3. CASE ReadSeed
  BY <1>3 DEF IndInv, TypeOK, ReadSeed, disk, tasks, End, BuildFails
<1>4. CASE LoadWallet
  BY <1>4 DEF IndInv, TypeOK, LoadWallet, disk, tasks, End, BuildFails
<1>5. CASE TruncateSeed
  BY <1>5 DEF IndInv, TypeOK, TruncateSeed, tasks
<1>6. CASE FillSeed
  BY <1>6 DEF IndInv, SeedPhase, TypeOK, FillSeed, tasks
<1>7. CASE CreateWallet
  BY <1>7 DEF IndInv, SeedPhase, TypeOK, CreateWallet, tasks
<1>8. CASE LoadManager
  BY <1>8 DEF IndInv, TypeOK, LoadManager, disk, tasks, End, BuildFails
<1>9. CASE BuildError
  <2>1. errors' \in 0..MaxErrors
    BY <1>9, LifecycleBounds DEF IndInv, TypeOK, BuildError, Error
  <2>2. QED
    BY <1>9, <2>1 DEF IndInv, TypeOK, BuildError, BuildFails, End, disk
<1>10. CASE Bind
  BY <1>10 DEF IndInv, TypeOK, Bind, End
<1>11. CASE CtrlC
  BY <1>11 DEF IndInv, TypeOK, CtrlC, disk
<1>12. CASE SignalFails
  BY <1>12, LifecycleBounds DEF IndInv, TypeOK, SignalFails, disk, tasks,
       Error
<1>13. CASE MainEnds
  BY <1>13 DEF IndInv, TypeOK, MainEnds, End
<1>14. CASE StartTasks
  BY <1>14 DEF IndInv, TypeOK, StartTasks, disk
<1>15. CASE StartFails
  BY <1>15, LifecycleBounds DEF IndInv, TypeOK, StartFails, disk, Error
<1>16. CASE StopBackground
  BY <1>16 DEF IndInv, TypeOK, StopBackground, disk
<1>17. CASE SavePeers
  BY <1>17, LifecycleBounds DEF IndInv, TypeOK, SavePeers, Error
<1>18. CASE MakeStoreDir
  BY <1>18 DEF IndInv, TypeOK, MakeStoreDir, tasks
<1>19. CASE PersistManager
  BY <1>19 DEF IndInv, TypeOK, PersistManager, tasks
<1>20. CASE PersistFails
  BY <1>20, LifecycleBounds DEF IndInv, TypeOK, PersistFails, disk, Error
<1>21. CASE FinalPersist
  BY <1>21 DEF IndInv, TypeOK, FinalPersist
<1>22. CASE FinalPersistFails
  BY <1>22, LifecycleBounds DEF IndInv, TypeOK, FinalPersistFails, disk,
       Error
<1>23. CASE FundChannel
  BY <1>23 DEF IndInv, TypeOK, FundChannel, tasks
<1>24. ASSUME NEW p \in Peers, PeersChange(p)
      PROVE  TypeOK'
  BY <1>24 DEF IndInv, TypeOK, PeersChange, disk
<1>25. CASE UNCHANGED vars
  BY <1>25 DEF IndInv, TypeOK, vars, disk, tasks
<1>26. QED
  BY <1>1, <1>2, <1>3, <1>4, <1>5, <1>6, <1>7, <1>8, <1>9, <1>10, <1>11,
       <1>12, <1>13, <1>14, <1>15, <1>16, <1>17, <1>18, <1>19, <1>20, <1>21,
       <1>22, <1>23, <1>24, <1>25
     DEF Next

\* Every step keeps what is known of seed file and wallet database.  The steps
\* that matter are those of WalletManager::new; all others leave both alone.
LEMMA SeedStep ==
  ASSUME IndInv, [Next]_vars
  PROVE  SeedOfWalletKept' /\ SeedPhase'
<1>1. CASE Start
  BY <1>1 DEF IndInv, SeedOfWalletKept, SeedPhase, TypeOK, Start, disk, tasks
<1>2. CASE Crash
  BY <1>2 DEF IndInv, SeedOfWalletKept, SeedPhase, TypeOK, Crash, disk, End
<1>3. CASE ReadSeed
  BY <1>3, SeedsAreSeeds DEF IndInv, SeedOfWalletKept, SeedPhase, TypeOK,
       ReadSeed, disk, tasks, End, BuildFails
<1>4. CASE LoadWallet
  BY <1>4, SeedsAreSeeds DEF IndInv, SeedOfWalletKept, SeedPhase, TypeOK,
       LoadWallet, disk, tasks, End, BuildFails
<1>5. CASE TruncateSeed
  BY <1>5, SeedsAreSeeds DEF IndInv, SeedOfWalletKept, SeedPhase, TypeOK,
       TruncateSeed, tasks
<1>6. CASE FillSeed
  BY <1>6, SeedsAreSeeds DEF IndInv, SeedOfWalletKept, SeedPhase, TypeOK,
       FillSeed, tasks
<1>7. CASE CreateWallet
  BY <1>7, SeedsAreSeeds DEF IndInv, SeedOfWalletKept, SeedPhase, TypeOK,
       CreateWallet, tasks
<1>8. CASE LoadManager
  BY <1>8 DEF IndInv, SeedOfWalletKept, SeedPhase, TypeOK, LoadManager, disk,
       tasks, End, BuildFails
<1>9. CASE BuildError
  BY <1>9 DEF IndInv, SeedOfWalletKept, SeedPhase, TypeOK, BuildError, disk,
       End, BuildFails, Error
<1>10. CASE Bind
  BY <1>10 DEF IndInv, SeedOfWalletKept, SeedPhase, TypeOK, Bind, End
<1>11. CASE CtrlC
  BY <1>11 DEF IndInv, SeedOfWalletKept, SeedPhase, TypeOK, CtrlC, disk
<1>12. CASE SignalFails
  BY <1>12 DEF IndInv, SeedOfWalletKept, SeedPhase, TypeOK, SignalFails,
       disk, tasks, Error
<1>13. CASE MainEnds
  BY <1>13 DEF IndInv, SeedOfWalletKept, SeedPhase, TypeOK, MainEnds, End
<1>14. CASE StartTasks
  BY <1>14 DEF IndInv, SeedOfWalletKept, SeedPhase, TypeOK, StartTasks, disk
<1>15. CASE StartFails
  BY <1>15 DEF IndInv, SeedOfWalletKept, SeedPhase, TypeOK, StartFails, disk,
       Error
<1>16. CASE StopBackground
  BY <1>16 DEF IndInv, SeedOfWalletKept, SeedPhase, TypeOK, StopBackground,
       disk
<1>17. CASE SavePeers
  BY <1>17 DEF IndInv, SeedOfWalletKept, SeedPhase, TypeOK, SavePeers, Error
<1>18. CASE MakeStoreDir
  BY <1>18 DEF IndInv, SeedOfWalletKept, SeedPhase, TypeOK, MakeStoreDir,
       tasks
<1>19. CASE PersistManager
  BY <1>19 DEF IndInv, SeedOfWalletKept, SeedPhase, TypeOK, PersistManager,
       tasks
<1>20. CASE PersistFails
  BY <1>20 DEF IndInv, SeedOfWalletKept, SeedPhase, TypeOK, PersistFails,
       disk, Error
<1>21. CASE FinalPersist
  BY <1>21 DEF IndInv, SeedOfWalletKept, SeedPhase, TypeOK, FinalPersist
<1>22. CASE FinalPersistFails
  BY <1>22 DEF IndInv, SeedOfWalletKept, SeedPhase, TypeOK,
       FinalPersistFails, disk, Error
<1>23. CASE FundChannel
  BY <1>23 DEF IndInv, SeedOfWalletKept, SeedPhase, TypeOK, FundChannel,
       tasks
<1>24. ASSUME NEW p \in Peers, PeersChange(p)
      PROVE  SeedOfWalletKept' /\ SeedPhase'
  BY <1>24 DEF IndInv, SeedOfWalletKept, SeedPhase, TypeOK, PeersChange, disk
<1>25. CASE UNCHANGED vars
  BY <1>25 DEF IndInv, SeedOfWalletKept, SeedPhase, TypeOK, vars, disk, tasks
<1>26. QED
  BY <1>1, <1>2, <1>3, <1>4, <1>5, <1>6, <1>7, <1>8, <1>9, <1>10, <1>11,
       <1>12, <1>13, <1>14, <1>15, <1>16, <1>17, <1>18, <1>19, <1>20, <1>21,
       <1>22, <1>23, <1>24, <1>25
     DEF Next

\* Every step keeps what is known of the directory "store".
LEMMA StoreStep ==
  ASSUME IndInv, [Next]_vars
  PROVE  NoAmnesia' /\ StorePhase'
<1>1. CASE Start
  BY <1>1 DEF IndInv, NoAmnesia, StorePhase, TypeOK, Start, disk, tasks
<1>2. CASE Crash
  BY <1>2 DEF IndInv, NoAmnesia, StorePhase, TypeOK, Crash, disk, End
<1>3. CASE ReadSeed
  BY <1>3 DEF IndInv, NoAmnesia, StorePhase, TypeOK, ReadSeed, disk, tasks,
       End, BuildFails
<1>4. CASE LoadWallet
  BY <1>4 DEF IndInv, NoAmnesia, StorePhase, TypeOK, LoadWallet, disk, tasks,
       End, BuildFails
<1>5. CASE TruncateSeed
  BY <1>5 DEF IndInv, NoAmnesia, StorePhase, TypeOK, TruncateSeed, tasks
<1>6. CASE FillSeed
  BY <1>6 DEF IndInv, NoAmnesia, StorePhase, TypeOK, FillSeed, tasks
<1>7. CASE CreateWallet
  BY <1>7 DEF IndInv, NoAmnesia, StorePhase, TypeOK, CreateWallet, tasks
<1>8. CASE LoadManager
  BY <1>8 DEF IndInv, NoAmnesia, StorePhase, TypeOK, LoadManager, disk,
       tasks, End, BuildFails
<1>9. CASE BuildError
  BY <1>9 DEF IndInv, NoAmnesia, StorePhase, TypeOK, BuildError, disk, End,
       BuildFails, Error
<1>10. CASE Bind
  BY <1>10 DEF IndInv, NoAmnesia, StorePhase, TypeOK, Bind, End
<1>11. CASE CtrlC
  BY <1>11 DEF IndInv, NoAmnesia, StorePhase, TypeOK, CtrlC, disk
<1>12. CASE SignalFails
  BY <1>12 DEF IndInv, NoAmnesia, StorePhase, TypeOK, SignalFails, disk,
       tasks, Error
<1>13. CASE MainEnds
  BY <1>13 DEF IndInv, NoAmnesia, StorePhase, TypeOK, MainEnds, End
<1>14. CASE StartTasks
  BY <1>14 DEF IndInv, NoAmnesia, StorePhase, TypeOK, StartTasks, disk
<1>15. CASE StartFails
  BY <1>15 DEF IndInv, NoAmnesia, StorePhase, TypeOK, StartFails, disk, Error
<1>16. CASE StopBackground
  BY <1>16 DEF IndInv, NoAmnesia, StorePhase, TypeOK, StopBackground, disk
<1>17. CASE SavePeers
  BY <1>17 DEF IndInv, NoAmnesia, StorePhase, TypeOK, SavePeers, Error
<1>18. CASE MakeStoreDir
  BY <1>18 DEF IndInv, NoAmnesia, StorePhase, TypeOK, MakeStoreDir, tasks
<1>19. CASE PersistManager
  BY <1>19 DEF IndInv, NoAmnesia, StorePhase, TypeOK, PersistManager, tasks
<1>20. CASE PersistFails
  BY <1>20 DEF IndInv, NoAmnesia, StorePhase, TypeOK, PersistFails, disk,
       Error
<1>21. CASE FinalPersist
  BY <1>21 DEF IndInv, NoAmnesia, StorePhase, TypeOK, FinalPersist
<1>22. CASE FinalPersistFails
  BY <1>22 DEF IndInv, NoAmnesia, StorePhase, TypeOK, FinalPersistFails,
       disk, Error
<1>23. CASE FundChannel
  BY <1>23 DEF IndInv, NoAmnesia, StorePhase, TypeOK, FundChannel, tasks
<1>24. ASSUME NEW p \in Peers, PeersChange(p)
      PROVE  NoAmnesia' /\ StorePhase'
  BY <1>24 DEF IndInv, NoAmnesia, StorePhase, TypeOK, PeersChange, disk
<1>25. CASE UNCHANGED vars
  BY <1>25 DEF IndInv, NoAmnesia, StorePhase, TypeOK, vars, disk, tasks
<1>26. QED
  BY <1>1, <1>2, <1>3, <1>4, <1>5, <1>6, <1>7, <1>8, <1>9, <1>10, <1>11,
       <1>12, <1>13, <1>14, <1>15, <1>16, <1>17, <1>18, <1>19, <1>20, <1>21,
       <1>22, <1>23, <1>24, <1>25
     DEF Next

\* Every step keeps the end of a run in order a start for the next one.
LEMMA BootStep ==
  ASSUME IndInv, [Next]_vars
  PROVE  CleanEndIsBootable' /\ BootPhase'
<1>1. CASE Start
  BY <1>1 DEF IndInv, CleanEndIsBootable, Unbootable, BootPhase,
       StorePhase, TypeOK, Start, disk, tasks
<1>2. CASE Crash
  BY <1>2 DEF IndInv, CleanEndIsBootable, Unbootable, BootPhase,
       StorePhase, TypeOK, Crash, disk, End
<1>3. CASE ReadSeed
  BY <1>3 DEF IndInv, CleanEndIsBootable, Unbootable, BootPhase,
       StorePhase, TypeOK, ReadSeed, disk, tasks, End, BuildFails
<1>4. CASE LoadWallet
  BY <1>4, SeedsAreSeeds DEF IndInv, CleanEndIsBootable, Unbootable,
       BootPhase, StorePhase, TypeOK, SeedPhase, LoadWallet, disk, tasks,
       End, BuildFails
<1>5. CASE TruncateSeed
  BY <1>5 DEF IndInv, CleanEndIsBootable, Unbootable, BootPhase,
       StorePhase, TypeOK, SeedOfWalletKept, SeedPhase, TruncateSeed, tasks
<1>6. CASE FillSeed
  BY <1>6 DEF IndInv, CleanEndIsBootable, Unbootable, BootPhase,
       StorePhase, TypeOK, SeedOfWalletKept, SeedPhase, FillSeed, tasks
<1>7. CASE CreateWallet
  BY <1>7, SeedsAreSeeds DEF IndInv, CleanEndIsBootable, Unbootable,
       BootPhase, StorePhase, TypeOK, SeedPhase, CreateWallet, tasks
<1>8. CASE LoadManager
  BY <1>8 DEF IndInv, CleanEndIsBootable, Unbootable, BootPhase,
       StorePhase, TypeOK, LoadManager, disk, tasks, End, BuildFails
<1>9. CASE BuildError
  BY <1>9 DEF IndInv, CleanEndIsBootable, Unbootable, BootPhase,
       StorePhase, TypeOK, BuildError, disk, End, BuildFails, Error
<1>10. CASE Bind
  BY <1>10 DEF IndInv, CleanEndIsBootable, Unbootable, BootPhase,
       StorePhase, TypeOK, Bind, End
<1>11. CASE CtrlC
  BY <1>11 DEF IndInv, CleanEndIsBootable, Unbootable, BootPhase,
       StorePhase, TypeOK, CtrlC, disk
<1>12. CASE SignalFails
  BY <1>12 DEF IndInv, CleanEndIsBootable, Unbootable, BootPhase,
       StorePhase, TypeOK, SignalFails, disk, tasks, Error
<1>13. CASE MainEnds
  BY <1>13, SeedsAreSeeds DEF IndInv, CleanEndIsBootable, Unbootable,
       BootPhase, StorePhase, TypeOK, SeedOfWalletKept, MainEnds, End
<1>14. CASE StartTasks
  BY <1>14 DEF IndInv, CleanEndIsBootable, Unbootable, BootPhase,
       StorePhase, TypeOK, StartTasks, disk
<1>15. CASE StartFails
  BY <1>15 DEF IndInv, CleanEndIsBootable, Unbootable, BootPhase,
       StorePhase, TypeOK, StartFails, disk, Error
<1>16. CASE StopBackground
  BY <1>16 DEF IndInv, CleanEndIsBootable, Unbootable, BootPhase,
       StorePhase, TypeOK, StopBackground, disk
<1>17. CASE SavePeers
  BY <1>17 DEF IndInv, CleanEndIsBootable, Unbootable, BootPhase,
       StorePhase, TypeOK, SavePeers, Error
<1>18. CASE MakeStoreDir
  BY <1>18 DEF IndInv, CleanEndIsBootable, Unbootable, BootPhase,
       StorePhase, TypeOK, MakeStoreDir, tasks
<1>19. CASE PersistManager
  BY <1>19 DEF IndInv, CleanEndIsBootable, Unbootable, BootPhase,
       StorePhase, TypeOK, PersistManager, tasks
<1>20. CASE PersistFails
  BY <1>20 DEF IndInv, CleanEndIsBootable, Unbootable, BootPhase,
       StorePhase, TypeOK, PersistFails, disk, Error
<1>21. CASE FinalPersist
  BY <1>21 DEF IndInv, CleanEndIsBootable, Unbootable, BootPhase,
       StorePhase, TypeOK, FinalPersist
<1>22. CASE FinalPersistFails
  BY <1>22 DEF IndInv, CleanEndIsBootable, Unbootable, BootPhase,
       StorePhase, TypeOK, FinalPersistFails, disk, Error
<1>23. CASE FundChannel
  BY <1>23 DEF IndInv, CleanEndIsBootable, Unbootable, BootPhase,
       StorePhase, TypeOK, FundChannel, tasks
<1>24. ASSUME NEW p \in Peers, PeersChange(p)
      PROVE  CleanEndIsBootable' /\ BootPhase'
  BY <1>24 DEF IndInv, CleanEndIsBootable, Unbootable, BootPhase,
       StorePhase, TypeOK, PeersChange, disk
<1>25. CASE UNCHANGED vars
  BY <1>25 DEF IndInv, CleanEndIsBootable, Unbootable, BootPhase,
       StorePhase, TypeOK, vars, disk, tasks
<1>26. QED
  BY <1>1, <1>2, <1>3, <1>4, <1>5, <1>6, <1>7, <1>8, <1>9, <1>10, <1>11,
       <1>12, <1>13, <1>14, <1>15, <1>16, <1>17, <1>18, <1>19, <1>20, <1>21,
       <1>22, <1>23, <1>24, <1>25
     DEF Next

-----------------------------------------------------------------------------
\* The invariant holds in every reachable state.
THEOREM Invariance == Spec => []IndInv
<1>1. IndInv /\ [Next]_vars => IndInv'
  BY TypeStep, SeedStep, StoreStep, BootStep DEF IndInv
<1>2. QED
  BY InitInv, <1>1, PTL DEF Spec

\* Types, for any number of runs of the process.
THEOREM LifecycleTypes == Spec => []TypeOK
<1>1. IndInv => TypeOK
  BY DEF IndInv
<1>2. QED
  BY Invariance, <1>1, PTL

\* A wallet never exists without its seed on disk: no crash in the middle of
\* WalletManager::new, and no later run, loses the keys.
THEOREM KeysAreKept == Spec => []SeedOfWalletKept
<1>1. IndInv => SeedOfWalletKept
  BY DEF IndInv
<1>2. QED
  BY Invariance, <1>1, PTL

\* A ChannelManager is never made from scratch when a channel was funded.
THEOREM ChannelsAreKept == Spec => []NoAmnesia
<1>1. IndInv => NoAmnesia
  BY DEF IndInv
<1>2. QED
  BY Invariance, <1>1, PTL

\* A run that ended in order and met no error leaves nothing that keeps the
\* next one from starting, whatever crashes and torn files earlier runs left.
THEOREM NextRunStarts == Spec => []CleanEndIsBootable
<1>1. IndInv => CleanEndIsBootable
  BY DEF IndInv
<1>2. QED
  BY Invariance, <1>1, PTL

=============================================================================
