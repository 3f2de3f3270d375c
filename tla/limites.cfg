SPECIFICATION SpecJusta
CONSTANTS
  u1 = u1
  g1 = g1
  e1 = e1
  Nenhum = Nenhum
  Contadores = {u1, g1}
  Limite <- Limites12
  Eventos = {e1}
  Rotas <- RotasTodas
  Pedidos = {p1, p2}
  Janela = 1
  VidaDaMarca = 2
  TemSegredo = TRUE
  ExigeHmac = FALSE
  TaxaLigada = TRUE
  MaxReenvios = 2
  MaxFalhas = 1
  MaxQuedas = 1
INVARIANTS ContadoresEmOrdem RepetidoFoiRecebido
PROPERTIES EventoChega
CHECK_DEADLOCK FALSE
