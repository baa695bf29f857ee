CONSTANTS
  NoService = NoService
  NoSecret = NoSecret
  NoRemote = NoRemote
  EmptyRemote = EmptyRemote
  NUsers = 1
  Injecting <- One
  Lagging <- Kinds
  MaxVersions = 2
  MaxTroubles = 1
SPECIFICATION FairSpec
INVARIANT TypeOK QuiescentConsistent
PROPERTY ImplementsParentHash PasswordsKept Converges
