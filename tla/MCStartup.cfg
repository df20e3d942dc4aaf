\* Files of up to three lines.
SPECIFICATION FairSpec
CONSTANTS
  Files <- MCFiles
  Texts <- MCTexts
  Addresses <- MCAddresses
  Localhost = Localhost
  MaxLines = 3
  NoFile = NoFile
  Empty = Empty
  Auth = Auth
  Junk = Junk
  None = None
  Host = Host
  SqlPort = SqlPort
  AnyAddress = AnyAddress
  User = User
  Password = Password
  Habbo = Habbo
INVARIANTS
  TypeOK
  FileIsObeyed
PROPERTY
  StartsOrEnds
