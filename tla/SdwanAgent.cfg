SPECIFICATION Spec
CONSTANTS
    None = None
    Activations <- MCActivations
    LostReplies = {"Prepare", "Commit", "Rollback", "Renew", "Suspend", "Stage", "Reconfigure", "Policy", "Drain", "Withdraw", "CorePrepare", "CoreCommit", "CorePolicy", "CoreSuspend", "CoreResume"}
    MaxFaults = 1
INVARIANTS
  SteeringSound
PROPERTIES
    ImplementsContract
    CommittedIsServed
    WithdrawalEndsSteering
