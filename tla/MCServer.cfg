CONSTANTS
  telnet = telnet
  browser = browser
  console = console
  Telnets <- OneTelnet
  Browsers <- OneBrowser
  Consoles <- OneConsole
  NoClient = NoClient
  Backlog = 2
  MaxInbox = 2

SPECIFICATION PatientSpec

INVARIANTS
  TypeOK
  OneSession
  NothingLost
  SurvivesItsClients

PROPERTIES
  ServesInTurn
  QuitEnds
  RequestsServed
