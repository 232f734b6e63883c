SPECIFICATION Spec
CONSTANTS
  ui = ui
  cli = cli
  app = app
  command = command
  Actors = {ui, cli}
  Services = {app, command}
  ServiceOf <- AppAndCli
  Clis = {command}
  Secrets = {db_url, api_key}
  Keys = {k1, k2, k3}
  NoKey = NoKey
  Locked = Locked
  Faults = {"crash", "io"}
INVARIANTS TypeOK VaultReadable SavedWholeOrTorn
SYMMETRY Symmetry
