\* The owner and two clients; the object is created, deleted and created again.
CONSTANTS
  Thread = {owner, c1, c2}
  Owner = owner
  c1 = c1
  c2 = c2
  Null = Null
  Letter = {"c:", "d:", "x:", "y:"}
  Systems <- SmallSystems
  Name <- SmallNames
  Mup <- TheMup
  Provider <- SmallProviders
  MaxObjects = 2
SPECIFICATION Spec
SYMMETRY Clients
INVARIANT VolumesAreToldApart
